---- MODULE Spec2Model ----
(***************************************************************************)
(* Model of the ingestion / cache / enrichment pipeline of the feedback    *)
(* server: src/server/src/routes/feedback.ts (date chunking, windowed      *)
(* chunk fetch, deduplication, LRUCache), src/server/src/services/         *)
(* geminiService.ts (AnalysisCache, analyzeInBatch) and the transformer    *)
(* (src/unnamed/part_001).                                                 *)
(*                                                                         *)
(* Calendar dates "YYYY-MM-DD" are day numbers; a JavaScript Date is a     *)
(* number of hours since day 0, 00:00 UTC.  Strings of feedback text are   *)
(* sequences of UTF-16 code units.                                         *)
(***************************************************************************)
EXTENDS Integers, Sequences, FiniteSets, TLC

VARIABLES
    localTZ,        \* the process's local time zone (environment)
    splitArgs,      \* arguments of a call of splitDateRange
    splitResult,    \* its return value, or NotCalled
    dedupInput,     \* a concatenation of chunk results (allRawData)
    dedupOutput,    \* the deduplicated list (uniqueRawData), or NotCalled
    now,            \* Date.now(), in clock ticks
    feedbackCache,  \* the LRUCache instance: [cache, maxSize, ttl]
    evictedKey,     \* history: the key the last LRUCache.set evicted, or None
    touchOrder,     \* history: stored keys, least recently touched first
    lastGet,        \* history: the last call on the cache and what it returned
    lastSet,        \* history: per key, the last set of it on the cache
    analysisCache,  \* the AnalysisCache instance: [cache, maxSize, ttl]
    supabaseConfigured, \* isSupabaseConfigured()
    db,             \* the persistent store: a Map from record id to record
    upserts,        \* the upsertFeedback calls in flight (their payloads)
    proc,           \* per caller: the locals of its current call
    analyzed,       \* history: contents the provider has returned a verdict for
    calls           \* history: calls started so far

splitVars == <<splitArgs, splitResult>>
dedupVars == <<dedupInput, dedupOutput>>
lruVars == <<now, feedbackCache, evictedKey, touchOrder, lastGet, lastSet>>
pipeVars == <<analysisCache, supabaseConfigured, db, upserts, proc, analyzed, calls>>
vars == <<localTZ, splitVars, dedupVars, lruVars, pipeVars>>

\* The return value of a call: none yet, or value v.
NotCalled == [done |-> FALSE, value |-> <<>>]

Returned(v) == [done |-> TRUE, value |-> v]
None == "none"

(***************************************************************************)
(* Bounds of the model.                                                    *)
(***************************************************************************)
SplitMaxDay == 9
SplitMaxChunkDays == 4
DedupMaxLen == 4
LRUMaxSize == 3
LRUTtl == 1
LRUMaxAccess == 2

(***************************************************************************)
(* Small helpers.                                                          *)
(***************************************************************************)
Min(a, b) == IF a <= b THEN a ELSE b

Range(s) == {s[i] : i \in DOMAIN s}

(***************************************************************************)
(* JavaScript Date, in hours.  A date-only string is parsed as UTC         *)
(* midnight; toISOString() prints the UTC calendar day; getDate/setDate    *)
(* work on the local calendar day of the process's time zone.              *)
(* A time zone is [std, shift, at]: the offset from UTC in hours, and a    *)
(* daylight-saving change of shift hours at UTC hour at (shift = 0: none). *)
(***************************************************************************)
HoursPerDay == 24

TimeZones ==
    { [name |-> "UTC",                 std |-> 0,    shift |-> 0,    at |-> 0],
      [name |-> "Asia/Shanghai",       std |-> 8,    shift |-> 0,    at |-> 0],
      [name |-> "America/New_York+",   std |-> 0 - 5, shift |-> 1,   at |-> 4 * 24 + 7],
      [name |-> "America/New_York-",   std |-> 0 - 4, shift |-> 0 - 1, at |-> 4 * 24 + 6],
      [name |-> "Europe/Berlin+",      std |-> 1,    shift |-> 1,    at |-> 4 * 24 + 1] }

\* new Date("YYYY-MM-DD"): UTC midnight of that day.
ParseDate(day) == day * HoursPerDay

\* date.toISOString().split('T')[0]: the UTC calendar day.
ToISODate(t) == t \div HoursPerDay

\* The local offset in force at UTC time t.
LocalTZA(tz, t) == IF tz.shift # 0 /\ t >= tz.at THEN tz.std + tz.shift ELSE tz.std

\* The UTC time of local wall-clock time lt (a skipped or repeated local
\* hour is read with the offset in force before the change).
UTCOfLocal(tz, lt) ==
    IF lt - tz.std < tz.at \/ tz.shift = 0 THEN lt - tz.std
    ELSE IF lt - (tz.std + tz.shift) >= tz.at THEN lt - (tz.std + tz.shift)
    ELSE lt - tz.std

\* d.setDate(d.getDate() + k): k local calendar days later, same local
\* wall-clock time.
SetDatePlus(tz, t, k) == UTCOfLocal(tz, (t + LocalTZA(tz, t)) + k * HoursPerDay)

(***************************************************************************)
(* splitDateRange(from, to, maxDaysPerChunk)                               *)
(***************************************************************************)
RECURSIVE SplitLoop(_, _, _, _, _)
SplitLoop(tz, currentStart, endDate, maxDaysPerChunk, chunks) ==
    IF ~(currentStart <= endDate) THEN chunks
    ELSE LET stepped == SetDatePlus(tz, currentStart, maxDaysPerChunk - 1)
             currentEnd == IF stepped > endDate THEN endDate ELSE stepped
             chunk == [from |-> ToISODate(currentStart), to |-> ToISODate(currentEnd)]
         IN  SplitLoop(tz, SetDatePlus(tz, currentEnd, 1), endDate, maxDaysPerChunk,
                       Append(chunks, chunk))

splitDateRange(tz, from, to, maxDaysPerChunk) ==
    SplitLoop(tz, ParseDate(from), ParseDate(to), maxDaysPerChunk, <<>>)

(***************************************************************************)
(* A JavaScript Map: entries [key, value] in insertion order.  set() on a  *)
(* key that is present replaces the value and keeps the entry's place.     *)
(***************************************************************************)
MapKeys(m) == [i \in 1..Len(m) |-> m[i].key]

MapValues(m) == [i \in 1..Len(m) |-> m[i].value]

MapHas(m, k) == \E i \in 1..Len(m) : m[i].key = k

MapGet(m, k) == m[CHOOSE i \in 1..Len(m) : m[i].key = k].value

MapSet(m, k, v) ==
    IF MapHas(m, k)
    THEN [i \in 1..Len(m) |-> IF m[i].key = k THEN [key |-> k, value |-> v] ELSE m[i]]
    ELSE Append(m, [key |-> k, value |-> v])

MapDelete(m, k) == SelectSeq(m, LAMBDA e : e.key # k)

(***************************************************************************)
(* Deduplication by upstream id (fetchFromFeishu, "Deduplicate by ID").    *)
(***************************************************************************)
RECURSIVE DedupLoop(_, _, _)
DedupLoop(allRawData, i, uniqueMap) ==
    IF i > Len(allRawData) THEN uniqueMap
    ELSE DedupLoop(allRawData, i + 1, MapSet(uniqueMap, allRawData[i].id, allRawData[i]))

\* Mutant: an id already in the map keeps its first record.
RECURSIVE DedupKeepFirstLoop(_, _, _)
DedupKeepFirstLoop(allRawData, i, uniqueMap) ==
    IF i > Len(allRawData) THEN uniqueMap
    ELSE DedupKeepFirstLoop(allRawData, i + 1,
            IF MapHas(uniqueMap, allRawData[i].id) THEN uniqueMap
            ELSE MapSet(uniqueMap, allRawData[i].id, allRawData[i]))

DeduplicateKeepFirst(allRawData) == MapValues(DedupKeepFirstLoop(allRawData, 1, <<>>))

Deduplicate(allRawData) == MapValues(DedupLoop(allRawData, 1, <<>>))

(***************************************************************************)
(* class LRUCache (the query result cache).  get and set return the new    *)
(* Map; get also returns the lookup result.                                *)
(***************************************************************************)
Miss(cache) == [cache |-> cache, hit |-> FALSE, data |-> <<>>]

\* Mutant: get does not look at the entry's aiAnalyzed flag.
LRUGetAnyEntry(c, t, key, requireAI) ==
    IF ~MapHas(c.cache, key) THEN Miss(c.cache)
    ELSE LET entry == MapGet(c.cache, key) IN
         IF t - entry.timestamp > c.ttl THEN Miss(MapDelete(c.cache, key))
         ELSE [cache |-> MapSet(MapDelete(c.cache, key), key,
                                [entry EXCEPT !.accessCount = @ + 1]),
               hit |-> TRUE, data |-> entry.data]

\* Mutant: a hit renews the entry's timestamp.
LRUGetRenew(c, t, key, requireAI) ==
    IF ~MapHas(c.cache, key) THEN Miss(c.cache)
    ELSE LET entry == MapGet(c.cache, key) IN
         IF t - entry.timestamp > c.ttl THEN Miss(MapDelete(c.cache, key))
         ELSE IF requireAI /\ ~entry.aiAnalyzed THEN Miss(c.cache)
         ELSE [cache |-> MapSet(MapDelete(c.cache, key), key,
                                [entry EXCEPT !.accessCount = @ + 1, !.timestamp = t]),
               hit |-> TRUE, data |-> entry.data]

LRUGet(c, t, key, requireAI) ==
    IF ~MapHas(c.cache, key) THEN Miss(c.cache)
    ELSE LET entry == MapGet(c.cache, key) IN
         IF t - entry.timestamp > c.ttl THEN Miss(MapDelete(c.cache, key))
         ELSE IF requireAI /\ ~entry.aiAnalyzed THEN Miss(c.cache)
         ELSE [cache |-> MapSet(MapDelete(c.cache, key), key,
                                [entry EXCEPT !.accessCount = @ + 1]),
               hit |-> TRUE, data |-> entry.data]

\* The key set() removes before it inserts, or None.
LRUOldestKey(c) ==
    IF Len(c.cache) >= c.maxSize /\ Len(c.cache) > 0 THEN c.cache[1].key ELSE None

\* Mutant: set leaves the entry of a key that is already cached.
LRUSetKeepExisting(c, t, key, data, aiAnalyzed) ==
    IF MapHas(c.cache, key) THEN c.cache
    ELSE LET oldestKey == LRUOldestKey(c)
             kept == IF oldestKey # None THEN MapDelete(c.cache, oldestKey) ELSE c.cache
         IN  MapSet(kept, key, [data |-> data, timestamp |-> t, accessCount |-> 1,
                                aiAnalyzed |-> aiAnalyzed])

LRUSet(c, t, key, data, aiAnalyzed) ==
    LET oldestKey == LRUOldestKey(c)
        kept == IF oldestKey # None THEN MapDelete(c.cache, oldestKey) ELSE c.cache
    IN  MapSet(kept, key, [data |-> data, timestamp |-> t, accessCount |-> 1,
                           aiAnalyzed |-> aiAnalyzed])

LRUClear(c) == <<>>

(***************************************************************************)
(* Sample feedback texts, as UTF-16 code units.                            *)
(***************************************************************************)
TextEmpty == <<>>
TextBlank == <<32>>                 \* " "
TextAa == <<65, 97>>                \* "Aa"
TextBB == <<66, 66>>                \* "BB"
TextOk == <<111, 107>>              \* "ok"
TextReview == <<23457, 26680>>      \* "审核"

SeqsUpTo(S, n) == UNION {[1..k -> S] : k \in 0..n}

(***************************************************************************)
(* String operations used by the transformer, on code units.               *)
(***************************************************************************)
IsUpper(u) == u >= 65 /\ u <= 90

IsLower(u) == u >= 97 /\ u <= 122

IsWhiteSpace(u) == u \in {9, 10, 11, 12, 13, 32, 160}

ToLowerCase(str) == [i \in 1..Len(str) |-> IF IsUpper(str[i]) THEN str[i] + 32 ELSE str[i]]

\* type.charAt(0).toUpperCase() + type.slice(1)
Capitalize(str) ==
    [i \in 1..Len(str) |-> IF i = 1 /\ IsLower(str[i]) THEN str[i] - 32 ELSE str[i]]

Includes(str, sub) ==
    \E i \in 1..(Len(str) - Len(sub) + 1) : SubSeq(str, i, i + Len(sub) - 1) = sub

RECURSIVE Trim(_)
Trim(str) ==
    IF str = <<>> THEN str
    ELSE IF IsWhiteSpace(Head(str)) THEN Trim(Tail(str))
    ELSE IF IsWhiteSpace(str[Len(str)]) THEN Trim(SubSeq(str, 1, Len(str) - 1))
    ELSE str

\* a || b on strings: the empty string is falsy.
OrElse(a, b) == IF a # <<>> THEN a ELSE b

\* array.slice(start, end), 0-based, end exclusive.
Slice(arr, start, end) == SubSeq(arr, start + 1, Min(end, Len(arr)))

(***************************************************************************)
(* The transformer without AI (transformFeishuToFeedback).                 *)
(***************************************************************************)
TypeBug == <<98, 117, 103>>                     \* "bug"
TypeMoment == <<109, 111, 109, 101, 110, 116>>  \* "moment"
TypeFeature == <<102, 101, 97, 116, 117, 114, 101>>
TypePerformance == <<112, 101, 114, 102, 111, 114, 109, 97, 110, 99, 101>>
NoType == <<>>                                  \* null, undefined or ""

Pending == "Pending"
Unclassified == "Unclassified"
\* item.aiSummary: absent, or a text.
NoSummary == [present |-> FALSE, text |-> <<>>]

Summary(text) == [present |-> TRUE, text |-> text]

mapCategory(type) ==
    IF type = NoType THEN Unclassified
    ELSE LET lower == ToLowerCase(type) IN
         IF lower = TypeMoment THEN "UX/UI"
         ELSE IF lower = TypeBug THEN "Bug Report"
         ELSE IF lower = TypeFeature THEN "Feature Request"
         ELSE IF lower = TypePerformance THEN "Performance"
         ELSE Unclassified

mapStatus(status) ==
    IF status = 2 THEN "In Progress" ELSE IF status = 3 THEN "Resolved" ELSE "New"

\* '美甲', '客拍', '塑形', '审核', '删除', '封号', '违规'
Keywords ==
    << <<32654, 30002>>, <<23458, 25293>>, <<22609, 24418>>, <<23457, 26680>>,
       <<21024, 38500>>, <<23553, 21495>>, <<36829, 35268>> >>

extractTags(content, type) ==
    LET typeTag == IF type # NoType THEN <<Capitalize(type)>> ELSE <<>>
        found == SelectSeq(Keywords, LAMBDA keyword : Includes(content, keyword))
    IN  Slice(typeTag \o found, 0, 5)

FeedbackId(id) == <<"f-", id>>

transformFeishuToFeedback(item) ==
    [ id |-> FeedbackId(item.id),
      date |-> item.createTime,
      content |-> OrElse(item.content, item.momentsText),
      rating |-> 3,
      category |-> mapCategory(item.type),
      sentiment |-> Pending,
      tags |-> extractTags(OrElse(item.content, item.momentsText), item.type),
      status |-> mapStatus(item.status),
      type |-> item.type,
      aiSummary |-> NoSummary ]

transformFeishuList(items) == [i \in 1..Len(items) |-> transformFeishuToFeedback(items[i])]

\* getDefaultAnalysis(): exported by geminiService, used by no caller.
getDefaultAnalysis ==
    [sentiment |-> Pending, category |-> Unclassified, tags |-> <<>>, summary |-> <<>>]

(***************************************************************************)
(* class AnalysisCache (the content analysis cache).                       *)
(***************************************************************************)
MaxInt32 == 2147483647

\* ToInt32: the value of (hash & hash), for one step of the hash (the sample
\* texts are short enough for hash * 31 + char to stay within 32 bits).
ToInt32(x) ==
    IF x > MaxInt32 THEN ((x - MaxInt32) - MaxInt32) - 2
    ELSE IF x < (0 - MaxInt32) - 1 THEN ((x + MaxInt32) + MaxInt32) + 2
    ELSE x

\* hashContent without the final toString(36), which is one-to-one.
RECURSIVE HashLoop(_, _, _)
HashLoop(content, i, hash) ==
    IF i > Len(content) THEN hash
    ELSE HashLoop(content, i + 1, ToInt32(((hash * 32) - hash) + content[i]))

hashContent(content) == HashLoop(content, 1, 0)

NewAnalysisCache(maxSize, ttlHours) ==
    [cache |-> <<>>, maxSize |-> maxSize, ttl |-> ttlHours * 60]

NoResult == [cache |-> <<>>, hit |-> FALSE, result |-> getDefaultAnalysis]

AnalysisCacheGet(c, t, content) ==
    LET key == hashContent(content) IN
    IF ~MapHas(c.cache, key) THEN [NoResult EXCEPT !.cache = c.cache]
    ELSE LET entry == MapGet(c.cache, key) IN
         IF t - entry.timestamp > c.ttl
         THEN [NoResult EXCEPT !.cache = MapDelete(c.cache, key)]
         ELSE [cache |-> c.cache, hit |-> TRUE, result |-> entry.result]

\* Mutant: at capacity set() removes the 100 entries inserted last.
AnalysisCacheSetDropNewest(c, t, content, result) ==
    LET kept == IF Len(c.cache) >= c.maxSize
                THEN SubSeq(c.cache, 1, Len(c.cache) - 100)
                ELSE c.cache
    IN  MapSet(kept, hashContent(content), [result |-> result, timestamp |-> t])

AnalysisCacheSet(c, t, content, result) ==
    LET kept == IF Len(c.cache) >= c.maxSize
                THEN SubSeq(c.cache, 101, Len(c.cache))
                ELSE c.cache
    IN  MapSet(kept, hashContent(content), [result |-> result, timestamp |-> t])

(***************************************************************************)
(* analyzeBatchInSingleCall: the handling of the provider's response to    *)
(* one chunk.  A response is [ok |-> FALSE] (the request threw, the text   *)
(* was empty or did not parse) or [ok |-> TRUE, parsed |-> array].         *)
(* Returns the chunk's results Map and the content cache.                  *)
(***************************************************************************)
FailedResponse == [ok |-> FALSE, parsed |-> <<>>]

ParsedResponse(parsed) == [ok |-> TRUE, parsed |-> parsed]

RECURSIVE MapBackLoop(_, _, _, _, _, _)
MapBackLoop(items, parsed, idx, results, c, t) ==
    IF idx > Len(items) THEN [results |-> results, cache |-> c.cache]
    ELSE IF idx <= Len(parsed)
         THEN MapBackLoop(items, parsed, idx + 1,
                          MapSet(results, items[idx].id, parsed[idx]),
                          [c EXCEPT !.cache =
                              AnalysisCacheSet(c, t, items[idx].content, parsed[idx])],
                          t)
         ELSE MapBackLoop(items, parsed, idx + 1, results, c, t)

\* Mutant: a failed call maps its items to the default result.
HandleResponseWithDefaults(items, response, c, t) ==
    IF response.ok THEN MapBackLoop(items, response.parsed, 1, <<>>, c, t)
    ELSE [results |-> [idx \in 1..Len(items) |->
                          [key |-> items[idx].id, value |-> getDefaultAnalysis]],
          cache |-> c.cache]

HandleResponse(items, response, c, t) ==
    IF response.ok THEN MapBackLoop(items, response.parsed, 1, <<>>, c, t)
    ELSE [results |-> <<>>, cache |-> c.cache]

(***************************************************************************)
(* analyzeInBatch: step 1 (cache check) and step 2 (chunks).               *)
(***************************************************************************)
RECURSIVE CheckCacheLoop(_, _, _, _, _, _)
CheckCacheLoop(items, i, results, uncachedItems, c, t) ==
    IF i > Len(items)
    THEN [results |-> results, uncachedItems |-> uncachedItems, cache |-> c.cache]
    ELSE LET cached == AnalysisCacheGet(c, t, items[i].content) IN
         IF cached.hit
         THEN CheckCacheLoop(items, i + 1, MapSet(results, items[i].id, cached.result),
                             uncachedItems, [c EXCEPT !.cache = cached.cache], t)
         ELSE CheckCacheLoop(items, i + 1, results, Append(uncachedItems, items[i]),
                             [c EXCEPT !.cache = cached.cache], t)

CheckCache(items, c, t) == CheckCacheLoop(items, 1, <<>>, <<>>, c, t)

RECURSIVE SplitChunks(_, _, _)
SplitChunks(uncachedItems, i, chunkSize) ==
    IF ~(i < Len(uncachedItems)) THEN <<>>
    ELSE <<Slice(uncachedItems, i, i + chunkSize)>>
            \o SplitChunks(uncachedItems, i + chunkSize, chunkSize)

\* Mutant: every remaining chunk is dispatched at once.
ParallelChunksAll(chunks, i, concurrency) == Slice(chunks, i, Len(chunks))

\* chunks.slice(i, i + concurrency): the chunks dispatched together.
ParallelChunks(chunks, i, concurrency) == Slice(chunks, i, i + concurrency)

RECURSIVE MergeResults(_, _, _)
MergeResults(results, chunkResult, k) ==
    IF k > Len(chunkResult) THEN results
    ELSE MergeResults(MapSet(results, chunkResult[k].key, chunkResult[k].value),
                      chunkResult, k + 1)

(***************************************************************************)
(* transformFeishuListWithAI: steps 2 and 4.                               *)
(***************************************************************************)
BatchItems(feedbackItems) ==
    LET kept == SelectSeq(feedbackItems, LAMBDA item : Len(Trim(item.content)) > 0)
    IN  [i \in 1..Len(kept) |-> [id |-> kept[i].id, content |-> kept[i].content]]

ApplyAnalysis(item, analysisResults) ==
    IF MapHas(analysisResults, item.id)
    THEN LET analysis == MapGet(analysisResults, item.id) IN
         [item EXCEPT !.sentiment = analysis.sentiment,
                      !.category = analysis.category,
                      !.tags = IF Len(analysis.tags) > 0 THEN analysis.tags ELSE item.tags,
                      !.aiSummary = Summary(analysis.summary)]
    ELSE item

ApplyAll(feedbackItems, analysisResults) ==
    [i \in 1..Len(feedbackItems) |-> ApplyAnalysis(feedbackItems[i], analysisResults)]

(***************************************************************************)
(* feedbackList.sort by date descending: a stable sort.                    *)
(***************************************************************************)
RECURSIVE InsertByDate(_, _)
InsertByDate(sorted, item) ==
    IF sorted = <<>> THEN <<item>>
    ELSE IF Head(sorted).date >= item.date
         THEN <<Head(sorted)>> \o InsertByDate(Tail(sorted), item)
         ELSE <<item>> \o sorted

\* Mutant: the list is left in the order of the fetch.
SortKeepOrder(list) == list

RECURSIVE SortByDateDesc(_)
SortByDateDesc(list) ==
    IF list = <<>> THEN <<>>
    ELSE InsertByDate(SortByDateDesc(SubSeq(list, 1, Len(list) - 1)), list[Len(list)])

(***************************************************************************)
(* The parts of the state a specification does not use stay as they are    *)
(* after construction.                                                     *)
(***************************************************************************)
IdleSplit ==
    /\ splitArgs = [from |-> 1, to |-> 1, maxDaysPerChunk |-> 1]
    /\ splitResult = NotCalled

IdleDedup ==
    /\ dedupInput = <<>>
    /\ dedupOutput = NotCalled

\* const feedbackCache = new LRUCache(10, 5)
NewLRUCache(maxSize, ttlMinutes) == [cache |-> <<>>, maxSize |-> maxSize, ttl |-> ttlMinutes]

NoGet ==
    [called |-> FALSE, key |-> None, requireAI |-> FALSE, stored |-> FALSE,
     hit |-> FALSE, data |-> <<>>]

NoSet == [written |-> FALSE, data |-> <<>>, aiAnalyzed |-> FALSE, at |-> 0]

IdleLRU ==
    /\ now = 0
    /\ feedbackCache = NewLRUCache(10, 5)
    /\ evictedKey = None
    /\ touchOrder = <<>>
    /\ lastGet = NoGet
    /\ lastSet = <<>>

\* The locals of a caller that has no call in progress.
IdleProc ==
    [ pc |-> "idle", kind |-> "none",
      from |-> 0, to |-> 0, withAI |-> FALSE,
      dbData |-> <<>>, dbFailed |-> FALSE,
      dateChunks |-> <<>>, i |-> 0, batch |-> <<>>, allRawData |-> <<>>,
      feedbackItems |-> <<>>, chunkSize |-> 0, concurrency |-> 0,
      chunks |-> <<>>, ci |-> 0, aiBatch |-> <<>>, results |-> <<>>,
      returned |-> NotCalled, error |-> None,
      chunkFailed |-> FALSE, wroteCache |-> FALSE, upsertStarted |-> FALSE,
      analyzedBefore |-> {} ]

\* const analysisCache = new AnalysisCache()
IdlePipe ==
    /\ analysisCache = NewAnalysisCache(5000, 24)
    /\ supabaseConfigured = FALSE
    /\ db = <<>>
    /\ upserts = <<>>
    /\ proc = <<IdleProc>>
    /\ analyzed = {}
    /\ calls = 0

(***************************************************************************)
(* Specification SpecSplit: splitDateRange applied to every interval and   *)
(* chunk size within the bounds, in every time zone of TimeZones.          *)
(***************************************************************************)
InitSplit ==
    /\ localTZ \in TimeZones
    /\ splitArgs \in [from : 1..SplitMaxDay, to : 1..SplitMaxDay,
                      maxDaysPerChunk : 1..SplitMaxChunkDays]
    /\ splitResult = NotCalled
    /\ IdleDedup
    /\ IdleLRU
    /\ IdlePipe

CallSplitDateRange ==
    /\ splitResult = NotCalled
    /\ splitResult' = Returned(splitDateRange(localTZ, splitArgs.from, splitArgs.to,
                                              splitArgs.maxDaysPerChunk))
    /\ UNCHANGED <<localTZ, splitArgs, dedupVars, lruVars, pipeVars>>

NextSplit == CallSplitDateRange

SpecSplit == InitSplit /\ [][NextSplit]_vars

(***************************************************************************)
(* C8: for every interval from <= to and every maxDaysPerChunk >= 1,       *)
(* splitDateRange returns ordered, contiguous, non-overlapping chunks      *)
(* whose concatenation is exactly [from, to], each of at most              *)
(* maxDaysPerChunk days.                                                   *)
(***************************************************************************)
ExactCover(chunks, from, to, n) ==
    /\ Len(chunks) >= 1
    /\ chunks[1].from = from
    /\ chunks[Len(chunks)].to = to
    /\ \A i \in 1..Len(chunks) :
          /\ chunks[i].from <= chunks[i].to
          /\ chunks[i].to - chunks[i].from + 1 <= n
    /\ \A i \in 1..(Len(chunks) - 1) : chunks[i + 1].from = chunks[i].to + 1

C8_SplitCoversExactly ==
    (splitResult.done /\ splitArgs.from <= splitArgs.to)
        => ExactCover(splitResult.value, splitArgs.from, splitArgs.to,
                      splitArgs.maxDaysPerChunk)

\* The same statement in the time zones that have no daylight-saving change.
C8_SplitCoversExactlyNoDST ==
    (splitResult.done /\ splitArgs.from <= splitArgs.to /\ localTZ.shift = 0)
        => ExactCover(splitResult.value, splitArgs.from, splitArgs.to,
                      splitArgs.maxDaysPerChunk)

(***************************************************************************)
(* Specification SpecDedup: the deduplication applied to every sequence    *)
(* of raw items within the bounds.                                         *)
(***************************************************************************)
DedupItems ==
    { [id |-> i, createTime |-> 24, content |-> c, momentsText |-> TextEmpty,
       type |-> TypeBug, status |-> 1] : i \in {41, 42}, c \in {TextAa, TextOk} }

InitDedup ==
    /\ localTZ \in {tz \in TimeZones : tz.name = "UTC"}
    /\ IdleSplit
    /\ dedupInput \in SeqsUpTo(DedupItems, DedupMaxLen)
    /\ dedupOutput = NotCalled
    /\ IdleLRU
    /\ IdlePipe

CallDeduplicate ==
    /\ dedupOutput = NotCalled
    /\ dedupOutput' = Returned(Deduplicate(dedupInput))
    /\ UNCHANGED <<localTZ, splitVars, dedupInput, lruVars, pipeVars>>

NextDedup == CallDeduplicate

SpecDedup == InitDedup /\ [][NextDedup]_vars

Ids(items) == {items[i].id : i \in 1..Len(items)}

LastIndexOf(items, id) ==
    CHOOSE i \in 1..Len(items) :
        /\ items[i].id = id
        /\ \A j \in (i + 1)..Len(items) : items[j].id # id

(***************************************************************************)
(* C9: the deduplicated output holds exactly one record per distinct       *)
(* upstream id, and for an id that occurs more than once the record kept   *)
(* is the occurrence met last in concatenation order.                      *)
(***************************************************************************)
C9_DedupLastWriteWins ==
    dedupOutput.done =>
        /\ Ids(dedupOutput.value) = Ids(dedupInput)
        /\ \A i, j \in 1..Len(dedupOutput.value) :
              dedupOutput.value[i].id = dedupOutput.value[j].id => i = j
        /\ \A i \in 1..Len(dedupOutput.value) :
              dedupOutput.value[i] = dedupInput[LastIndexOf(dedupInput, dedupOutput.value[i].id)]

C9_Witness ==
    /\ dedupOutput.done
    /\ \E i, j \in 1..Len(dedupInput) :
          /\ i < j
          /\ dedupInput[i].id = dedupInput[j].id
          /\ dedupInput[i] # dedupInput[j]
          /\ \E k \in 1..Len(dedupOutput.value) : dedupOutput.value[k] = dedupInput[j]

(***************************************************************************)
(* Specification SpecLRU: one LRUCache of capacity LRUMaxSize and TTL      *)
(* LRUTtl under every sequence of get, set and clear calls, with the clock *)
(* advancing between calls; an entry is read at most LRUMaxAccess - 1      *)
(* times between two writes of it.                                         *)
(***************************************************************************)
\* const cacheKey = `${from}-${to}`
CacheKey(from, to) == <<from, "-", to>>

LRUKeys == {CacheKey(1, to) : to \in 1..(LRUMaxSize + 1)}

LRUData == {<<>>}

\* The keys of order still stored in cache, then the touched key (if any) last.
Touched(order, cache, key) ==
    LET stored == SelectSeq(order, LAMBDA k : MapHas(cache, k) /\ k # key)
    IN  IF key # None /\ MapHas(cache, key) THEN Append(stored, key) ELSE stored

InitLRU ==
    /\ localTZ \in {tz \in TimeZones : tz.name = "UTC"}
    /\ IdleSplit
    /\ IdleDedup
    /\ now = 0
    /\ feedbackCache = NewLRUCache(LRUMaxSize, LRUTtl)
    /\ evictedKey = None
    /\ touchOrder = <<>>
    /\ lastGet = NoGet
    /\ lastSet = <<>>
    /\ IdlePipe

CacheGet(key, requireAI) ==
    /\ MapHas(feedbackCache.cache, key) =>
          MapGet(feedbackCache.cache, key).accessCount < LRUMaxAccess
    /\ LET r == LRUGet(feedbackCache, now, key, requireAI) IN
          /\ feedbackCache' = [feedbackCache EXCEPT !.cache = r.cache]
          /\ touchOrder' = Touched(touchOrder, r.cache, IF r.hit THEN key ELSE None)
    /\ evictedKey' = None
    /\ UNCHANGED <<localTZ, splitVars, dedupVars, now, lastGet, lastSet, pipeVars>>

CacheSet(key, data, aiAnalyzed) ==
    /\ LET cache == LRUSet(feedbackCache, now, key, data, aiAnalyzed) IN
          /\ feedbackCache' = [feedbackCache EXCEPT !.cache = cache]
          /\ touchOrder' = Touched(touchOrder, cache, key)
    /\ evictedKey' = LRUOldestKey(feedbackCache)
    /\ UNCHANGED <<localTZ, splitVars, dedupVars, now, lastGet, lastSet, pipeVars>>

CacheClear ==
    /\ feedbackCache.cache # <<>>
    /\ feedbackCache' = [feedbackCache EXCEPT !.cache = LRUClear(feedbackCache)]
    /\ touchOrder' = <<>>
    /\ evictedKey' = None
    /\ UNCHANGED <<localTZ, splitVars, dedupVars, now, lastGet, lastSet, pipeVars>>

Tick ==
    /\ now < feedbackCache.ttl + 1
    /\ now' = now + 1
    /\ UNCHANGED <<localTZ, splitVars, dedupVars, feedbackCache, evictedKey,
                   touchOrder, lastGet, lastSet, pipeVars>>

NextLRU ==
    \/ \E key \in LRUKeys, requireAI \in BOOLEAN : CacheGet(key, requireAI)
    \/ \E key \in LRUKeys, data \in LRUData, aiAnalyzed \in BOOLEAN :
          CacheSet(key, data, aiAnalyzed)
    \/ CacheClear
    \/ Tick

SpecLRU == InitLRU /\ [][NextLRU]_vars

(***************************************************************************)
(* C10: the query result cache is a strict LRU: whenever set evicts a key  *)
(* at capacity, the evicted key is the least recently touched of the       *)
(* stored keys, a key being touched by a set of it and by a get that       *)
(* returns it.                                                             *)
(***************************************************************************)
C10_EvictsLeastRecentlyTouched ==
    [][evictedKey' # None => evictedKey' = Head(touchOrder)]_vars

(***************************************************************************)
(* Specification Spec: the query pipeline (fetchFromFeishu) and direct     *)
(* calls of transformFeishuListWithAI, by the callers of Callers.  A       *)
(* caller starts its next call once the previous one has returned or       *)
(* thrown and every request it left behind has settled.  The clock stands  *)
(* still, so every cache entry stays within its TTL.                       *)
(***************************************************************************)
Callers == {1}
MaxCalls == 2
MaxItems == 3
MaxChunkSize == 2
MaxConcurrency == 2

\* The upstream's records: [id, createTime (hours), content, momentsText,
\* type, status].  Record 42 was created at midnight between two date chunks.
RawItem(id, createTime, content, momentsText, type, status) ==
    [id |-> id, createTime |-> createTime, content |-> content,
     momentsText |-> momentsText, type |-> type, status |-> status]

UpstreamData ==
    << RawItem(41, 30, TextAa, TextEmpty, TypeBug, 1),
       RawItem(42, 96, TextAa, TextEmpty, NoType, 2),
       RawItem(43, 125, TextEmpty, TextReview, TypeMoment, 3),
       RawItem(44, 200, TextBlank, TextEmpty, TypeBug, 1) >>

\* The list the upstream answers for ?from=..&to=..: the records created
\* from the start of day from to the end of day to, both inclusive.
FetchList(chunk) ==
    SelectSeq(UpstreamData, LAMBDA item :
        /\ ParseDate(chunk.from) <= item.createTime
        /\ item.createTime <= ParseDate(chunk.to + 1))

\* The outcomes of fetchSingleRange: a list, or one of its two errors.
FetchOutcomes == {"ok", "http-error", "code-error"}

\* The arguments of the calls the callers make.
Queries ==
    { [from |-> 1, to |-> 2, withAI |-> TRUE],
      [from |-> 1, to |-> 5, withAI |-> TRUE],
      [from |-> 1, to |-> 5, withAI |-> FALSE],
      [from |-> 1, to |-> 16, withAI |-> FALSE],
      [from |-> 3, to |-> 2, withAI |-> FALSE] }

TransformSamples ==
    << RawItem(41, 30, TextAa, TextEmpty, TypeBug, 1),
       RawItem(42, 96, TextAa, TextEmpty, NoType, 2),
       RawItem(45, 130, TextBB, TextReview, TypeMoment, 3),
       RawItem(44, 200, TextBlank, TextEmpty, TypeBug, 1) >>

RECURSIVE SubLists(_)
SubLists(list) ==
    IF list = <<>> THEN {<<>>}
    ELSE LET rest == SubLists(Tail(list)) IN
         rest \cup {<<Head(list)>> \o l : l \in rest}

TransformInputs == {l \in SubLists(TransformSamples) : Len(l) <= MaxItems}

\* The verdicts the provider may give an item.
Verdicts ==
    { [sentiment |-> "Negative", category |-> "Bug Report",
       tags |-> << <<99, 114, 97, 115, 104>> >>, summary |-> <<115, 49>>],
      [sentiment |-> "Positive", category |-> "Other",
       tags |-> <<>>, summary |-> <<115, 50>>] }

\* The responses to one chunk: a failure, or an array of up to one verdict
\* per item.
Responses(items) ==
    {FailedResponse} \cup {ParsedResponse(parsed) : parsed \in SeqsUpTo(Verdicts, Len(items))}

(***************************************************************************)
(* Promises.  A slot is one request of a call: not yet dispatched          *)
(* ("waiting"), in flight ("pending"), or settled ("fulfilled" with data,  *)
(* "rejected").  response is what the environment answered.                *)
(***************************************************************************)
FetchSlot(chunk) == [state |-> "waiting", arg |-> chunk, data |-> <<>>, response |-> None]

AISlot(chunk) == [state |-> "waiting", arg |-> chunk, data |-> <<>>, response |-> FailedResponse]

\* The slots of the requests batch, which start at 0-based position i.
Window(slots, i, batch) == {k \in 1..Len(slots) : i < k /\ k <= i + Len(batch)}

\* batch.map(chunk => request(chunk)): every request of the batch starts.
Dispatch(slots, i, batch) ==
    [k \in 1..Len(slots) |->
        IF k \in Window(slots, i, batch) THEN [slots[k] EXCEPT !.state = "pending"]
        ELSE slots[k]]

NumPending(slots) == Cardinality({k \in 1..Len(slots) : slots[k].state = "pending"})

AnyPending(slots) == \E k \in 1..Len(slots) : slots[k].state = "pending"

\* Mutant: a combinator that waits for every promise to settle.
PromiseAllSettledFirst(slots, window) ==
    IF \E k \in window : slots[k].state = "pending" THEN "pending"
    ELSE IF \E k \in window : slots[k].state = "rejected" THEN "rejected"
    ELSE "fulfilled"

\* Promise.all over the slots of window: rejected as soon as one of them is
\* rejected, fulfilled once all of them are.
PromiseAll(slots, window) ==
    IF \E k \in window : slots[k].state = "rejected" THEN "rejected"
    ELSE IF \A k \in window : slots[k].state = "fulfilled" THEN "fulfilled"
    ELSE "pending"

\* The values of a fulfilled Promise.all: in the order of the requests.
RECURSIVE BatchResults(_, _, _)
BatchResults(slots, i, n) ==
    IF n = 0 THEN <<>> ELSE <<slots[i + 1].data>> \o BatchResults(slots, i + 1, n - 1)

RECURSIVE Flatten(_)
Flatten(lists) == IF lists = <<>> THEN <<>> ELSE Head(lists) \o Flatten(Tail(lists))

\* a || b on numbers: 0 and undefined are falsy.
OrDefault(a, b) == IF a = 0 THEN b ELSE a

(***************************************************************************)
(* fetchSingleRange: what the call does with the upstream's answer.        *)
(***************************************************************************)
\* Mutant: an upstream error is taken for an empty list.
FetchResultSwallow(chunk, outcome) ==
    [ok |-> TRUE, data |-> IF outcome = "ok" THEN FetchList(chunk) ELSE <<>>, error |-> None]

FetchResult(chunk, outcome) ==
    IF outcome = "ok" THEN [ok |-> TRUE, data |-> FetchList(chunk), error |-> None]
    ELSE [ok |-> FALSE, data |-> <<>>, error |-> outcome]

\* dateChunks.slice(i, i + concurrency)
FetchBatch(dateChunks, i, concurrency) == Slice(dateChunks, i, i + concurrency)

\* Mutant: each chunk's records are pushed when its request completes.
PushAsCompleted(allRawData, slots, i, batch, k) == allRawData \o slots[k].data

\* for (const data of batchResults) allRawData.push(...data), once the
\* Promise.all of the batch is fulfilled; k is the slot that just settled.
PushBatchResults(allRawData, slots, i, batch, k) ==
    IF PromiseAll(slots, Window(slots, i, batch)) = "fulfilled"
    THEN allRawData \o Flatten(BatchResults(slots, i, Len(batch)))
    ELSE allRawData

(***************************************************************************)
(* The persistent store.                                                   *)
(***************************************************************************)
\* toDbFeedback, then fromDbFeedback: ai_summary is item.aiSummary || null.
ThroughDb(item) ==
    [item EXCEPT !.aiSummary = IF @.present /\ @.text # <<>> THEN @ ELSE NoSummary]

\* .upsert(dbItems, { onConflict: 'id' })
RECURSIVE UpsertRows(_, _, _)
UpsertRows(rows, items, k) ==
    IF k > Len(items) THEN rows
    ELSE UpsertRows(MapSet(rows, items[k].id, ThroughDb(items[k])), items, k + 1)

\* getFeedback({ from, to, fetchAll: true }): date >= from, date <= the
\* last second of to, newest first.
DbQuery(rows, from, to) ==
    SortByDateDesc(SelectSeq(MapValues(rows), LAMBDA row :
        ParseDate(from) <= row.date /\ row.date < ParseDate(to + 1)))

(***************************************************************************)
(* The steps of the pipeline, on st = [me, fc, ac, up]: the caller's       *)
(* locals, the query result cache, the content cache and the upserts in    *)
(* flight.  Each runs the code up to its next await or its return.         *)
(***************************************************************************)
FetchConcurrency == 5

\* Mutant: the query awaits the upsert before it writes the cache and returns.
FinishQueryAwaitUpsert(st, feedbackList) ==
    LET sorted == SortByDateDesc(feedbackList)
        persist == supabaseConfigured /\ Len(sorted) > 0
        cacheKey == CacheKey(st.me.from, st.me.to)
    IN  IF persist
        THEN [st EXCEPT !.me.pc = "persisting", !.me.upsertStarted = TRUE,
                        !.up = Append(@, sorted)]
        ELSE [st EXCEPT !.me.pc = "done", !.me.returned = Returned(sorted),
                        !.me.wroteCache = TRUE,
                        !.fc.cache = LRUSet(st.fc, now, cacheKey, sorted, st.me.withAI)]

\* fetchFromFeishu from the sort to the return.
FinishQuery(st, feedbackList) ==
    LET sorted == SortByDateDesc(feedbackList)
        persist == supabaseConfigured /\ Len(sorted) > 0
        cacheKey == CacheKey(st.me.from, st.me.to)
    IN  [ me |-> [st.me EXCEPT !.pc = "done", !.returned = Returned(sorted),
                               !.wroteCache = TRUE, !.upsertStarted = persist],
          fc |-> [st.fc EXCEPT !.cache = LRUSet(st.fc, now, cacheKey, sorted, st.me.withAI)],
          ac |-> st.ac,
          up |-> IF persist THEN Append(st.up, sorted) ELSE st.up ]

\* forceRefreshFeedback from the cache update to the return.
RefreshReturn(st, feedbackList) ==
    [st EXCEPT !.me.pc = "done",
               !.me.returned = Returned([success |-> TRUE, count |-> Len(feedbackList)]),
               !.me.wroteCache = TRUE,
               !.fc.cache = LRUSet(st.fc, now, CacheKey(st.me.from, st.me.to),
                                   feedbackList, TRUE)]

\* forceRefreshFeedback from the sort to the awaited upsert, or to the
\* return when there is nothing to persist.
FinishRefresh(st, feedbackList) ==
    LET sorted == SortByDateDesc(feedbackList) IN
    IF supabaseConfigured /\ Len(sorted) > 0
    THEN [st EXCEPT !.me.pc = "persisting", !.me.feedbackItems = sorted,
                    !.me.upsertStarted = TRUE]
    ELSE RefreshReturn([st EXCEPT !.me.feedbackItems = sorted], sorted)

\* transformFeishuListWithAI returns feedbackItems, to its caller.
TransformReturn(st, feedbackItems) ==
    IF st.me.kind = "query" THEN FinishQuery(st, feedbackItems)
    ELSE IF st.me.kind = "refresh" THEN FinishRefresh(st, feedbackItems)
    ELSE [st EXCEPT !.me.pc = "done", !.me.returned = Returned(feedbackItems)]

\* analyzeInBatch step 3: the head of the loop over the chunks, then
\* transformFeishuListWithAI step 4.
AnalyzeNextBatch(st) ==
    IF st.me.ci < Len(st.me.chunks)
    THEN [st EXCEPT !.me.pc = "analyzing",
                    !.me.aiBatch = Dispatch(@, st.me.ci,
                        ParallelChunks(st.me.chunks, st.me.ci, st.me.concurrency))]
    ELSE TransformReturn(st, ApplyAll(st.me.feedbackItems, st.me.results))

transformFeishuListWithAI(st, items, options) ==
    LET feedbackItems == transformFeishuList(items)
        batchItems == BatchItems(feedbackItems)
        checked == CheckCache(batchItems, st.ac, now)
        chunks == SplitChunks(checked.uncachedItems, 0, OrDefault(options.chunkSize, 30))
    IN  IF Len(batchItems) = 0
        THEN TransformReturn([st EXCEPT !.me.feedbackItems = feedbackItems], feedbackItems)
        ELSE AnalyzeNextBatch(
                [st EXCEPT !.me.feedbackItems = feedbackItems,
                           !.me.results = checked.results,
                           !.me.chunkSize = OrDefault(options.chunkSize, 30),
                           !.me.concurrency = OrDefault(options.concurrency, 10),
                           !.me.chunks = chunks,
                           !.me.ci = 0,
                           !.me.aiBatch = [k \in 1..Len(chunks) |-> AISlot(chunks[k])],
                           !.ac.cache = checked.cache])

\* fetchFromFeishu: the head of the loop over the date chunks, then the
\* deduplication and the transformation.
FetchNextBatch(st) ==
    IF st.me.i < Len(st.me.dateChunks)
    THEN [st EXCEPT !.me.pc = "fetching",
                    !.me.batch = Dispatch(@, st.me.i,
                        FetchBatch(st.me.dateChunks, st.me.i, FetchConcurrency))]
    ELSE LET uniqueRawData == Deduplicate(st.me.allRawData) IN
         IF st.me.withAI
         THEN transformFeishuListWithAI(st, uniqueRawData,
                                        [chunkSize |-> 50, concurrency |-> 10])
         ELSE FinishQuery(st, transformFeishuList(uniqueRawData))

\* fetchFromFeishu step 3.
FetchFromApi(st) ==
    LET dateChunks == splitDateRange(localTZ, st.me.from, st.me.to, 3) IN
    FetchNextBatch([st EXCEPT !.me.dateChunks = dateChunks,
                              !.me.i = 0,
                              !.me.batch = [k \in 1..Len(dateChunks) |-> FetchSlot(dateChunks[k])],
                              !.me.allRawData = <<>>])

\* The error a rejected Promise.all throws: that of its rejected promise.
Rejection(slots, window) ==
    slots[CHOOSE k \in window : slots[k].state = "rejected"].response

RECURSIVE MergeAll(_, _)
MergeAll(results, chunkResults) ==
    IF chunkResults = <<>> THEN results
    ELSE MergeAll(MergeResults(results, Head(chunkResults), 1), Tail(chunkResults))

(***************************************************************************)
(* The actions of Spec.                                                    *)
(***************************************************************************)
Init ==
    /\ localTZ \in {tz \in TimeZones : tz.name = "UTC"}
    /\ IdleSplit
    /\ IdleDedup
    /\ IdleLRU
    /\ analysisCache = NewAnalysisCache(5000, 24)
    /\ supabaseConfigured \in BOOLEAN
    /\ db = <<>>
    /\ upserts = <<>>
    /\ proc = [p \in Callers |-> IdleProc]
    /\ analyzed = {}
    /\ calls = 0

Here(p) == [me |-> proc[p], fc |-> feedbackCache, ac |-> analysisCache, up |-> upserts]

Commit(p, st) ==
    /\ proc' = [proc EXCEPT ![p] = st.me]
    /\ feedbackCache' = st.fc
    /\ analysisCache' = st.ac
    /\ upserts' = st.up

CanStart(p) ==
    /\ calls < MaxCalls
    /\ proc[p].pc \in {"idle", "done", "failed"}
    /\ ~AnyPending(proc[p].batch)
    /\ ~AnyPending(proc[p].aiBatch)

\* A call of fetchFromFeishu(from, to, withAI), up to its first await.
fetchFromFeishu(p, from, to, withAI) ==
    /\ CanStart(p)
    /\ calls' = calls + 1
    /\ LET cached == LRUGet(feedbackCache, now, CacheKey(from, to), withAI)
           me == [IdleProc EXCEPT !.kind = "query", !.from = from, !.to = to,
                                  !.withAI = withAI, !.analyzedBefore = analyzed]
           st == [Here(p) EXCEPT !.me = me, !.fc.cache = cached.cache]
       IN  Commit(p, IF cached.hit
                     THEN [st EXCEPT !.me.pc = "done", !.me.returned = Returned(cached.data)]
                     ELSE IF supabaseConfigured THEN [st EXCEPT !.me.pc = "db"]
                     ELSE FetchFromApi(st))
    /\ UNCHANGED <<localTZ, splitVars, dedupVars, now, evictedKey, touchOrder, lastGet, lastSet,
                   supabaseConfigured, db, analyzed>>

\* Mutant: the rows of the store are never taken to need analysis.
needsAINever(withAI, dbData) == FALSE

\* const needsAI = withAI && dbData.some(f => f.sentiment === Sentiment.PENDING)
needsAI(withAI, dbData) ==
    withAI /\ \E k \in 1..Len(dbData) : dbData[k].sentiment = Pending

\* Mutant: a failed read of the store fails the query.
GetFeedbackSettlesRethrow(p, outcome) ==
    /\ proc[p].pc = "db"
    /\ LET me == proc[p]
           dbData == DbQuery(db, me.from, me.to)
           st == [Here(p) EXCEPT !.me.dbData = IF outcome = "ok" THEN dbData ELSE <<>>,
                                 !.me.dbFailed = outcome # "ok"]
       IN  Commit(p, IF outcome # "ok"
                     THEN [st EXCEPT !.me.pc = "failed", !.me.error = outcome]
                     ELSE IF Len(dbData) > 0 /\ ~needsAI(me.withAI, dbData)
                     THEN [st EXCEPT !.me.pc = "done",
                                     !.me.returned = Returned(dbData),
                                     !.me.wroteCache = TRUE,
                                     !.fc.cache = LRUSet(st.fc, now, CacheKey(me.from, me.to),
                                                         dbData, TRUE)]
                     ELSE FetchFromApi(st))
    /\ UNCHANGED <<localTZ, splitVars, dedupVars, now, evictedKey, touchOrder, lastGet, lastSet,
                   supabaseConfigured, db, analyzed, calls>>

\* supabase.getFeedback settles (fetchFromFeishu step 2).
GetFeedbackSettles(p, outcome) ==
    /\ proc[p].pc = "db"
    /\ LET me == proc[p]
           dbData == DbQuery(db, me.from, me.to)
           st == [Here(p) EXCEPT !.me.dbData = IF outcome = "ok" THEN dbData ELSE <<>>,
                                 !.me.dbFailed = outcome # "ok"]
       IN  Commit(p, IF outcome = "ok" /\ Len(dbData) > 0 /\ ~needsAI(me.withAI, dbData)
                     THEN [st EXCEPT !.me.pc = "done",
                                     !.me.returned = Returned(dbData),
                                     !.me.wroteCache = TRUE,
                                     !.fc.cache = LRUSet(st.fc, now, CacheKey(me.from, me.to),
                                                         dbData, TRUE)]
                     ELSE FetchFromApi(st))
    /\ UNCHANGED <<localTZ, splitVars, dedupVars, now, evictedKey, touchOrder, lastGet, lastSet,
                   supabaseConfigured, db, analyzed, calls>>

\* The fetchSingleRange of slot k settles.
FetchSettles(p, k, outcome) ==
    /\ k \in 1..Len(proc[p].batch)
    /\ proc[p].batch[k].state = "pending"
    /\ LET me == proc[p]
           r == FetchResult(me.batch[k].arg, outcome)
           slots == [me.batch EXCEPT ![k] =
                        [@ EXCEPT !.state = IF r.ok THEN "fulfilled" ELSE "rejected",
                                  !.data = r.data,
                                  !.response = outcome]]
           batch == FetchBatch(me.dateChunks, me.i, FetchConcurrency)
           window == Window(slots, me.i, batch)
           st == [Here(p) EXCEPT !.me.batch = slots,
                                 !.me.chunkFailed = @ \/ outcome # "ok"]
           pushed == [st EXCEPT !.me.allRawData = PushBatchResults(@, slots, me.i, batch, k)]
       IN  Commit(p, IF me.pc # "fetching" THEN st
                     ELSE IF PromiseAll(slots, window) = "rejected"
                     THEN [st EXCEPT !.me.pc = "failed", !.me.error = Rejection(slots, window)]
                     ELSE IF PromiseAll(slots, window) = "fulfilled"
                     THEN FetchNextBatch([pushed EXCEPT !.me.i = @ + FetchConcurrency])
                     ELSE pushed)
    /\ UNCHANGED <<localTZ, splitVars, dedupVars, now, evictedKey, touchOrder, lastGet, lastSet,
                   supabaseConfigured, db, analyzed, calls>>

\* The analyzeBatchInSingleCall of slot k gets the provider's response.
AnalysisSettles(p, k, response) ==
    /\ k \in 1..Len(proc[p].aiBatch)
    /\ proc[p].aiBatch[k].state = "pending"
    /\ response \in Responses(proc[p].aiBatch[k].arg)
    /\ LET me == proc[p]
           chunk == me.aiBatch[k].arg
           handled == HandleResponse(chunk, response, analysisCache, now)
           slots == [me.aiBatch EXCEPT ![k] =
                        [@ EXCEPT !.state = "fulfilled",
                                  !.data = handled.results,
                                  !.response = response]]
           parallelChunks == ParallelChunks(me.chunks, me.ci, me.concurrency)
           st == [Here(p) EXCEPT !.me.aiBatch = slots, !.ac.cache = handled.cache]
       IN  /\ Commit(p, IF PromiseAll(slots, Window(slots, me.ci, parallelChunks)) = "fulfilled"
                        THEN AnalyzeNextBatch(
                                [st EXCEPT !.me.results =
                                               MergeAll(@, BatchResults(slots, me.ci,
                                                                        Len(parallelChunks))),
                                           !.me.ci = @ + me.concurrency])
                        ELSE st)
           /\ analyzed' = analyzed \cup
                  {chunk[idx].content : idx \in 1..Min(Len(chunk), Len(response.parsed))}
    /\ UNCHANGED <<localTZ, splitVars, dedupVars, now, evictedKey, touchOrder, lastGet, lastSet,
                   supabaseConfigured, db, calls>>

\* An upsertFeedback settles: all rows written, { success: 0, failed: n }
\* on an error response, or a rejection (the client threw).
UpsertOutcomes == {"ok", "error", "reject"}

\* An upsertFeedback in flight settles.
UpsertSettles(k, outcome) ==
    /\ k \in 1..Len(upserts)
    /\ db' = IF outcome = "ok" THEN UpsertRows(db, upserts[k], 1) ELSE db
    /\ upserts' = SubSeq(upserts, 1, k - 1) \o SubSeq(upserts, k + 1, Len(upserts))
    /\ UNCHANGED <<localTZ, splitVars, dedupVars, lruVars, analysisCache,
                   supabaseConfigured, proc, analyzed, calls>>

\* A direct call of transformFeishuListWithAI(items, { chunkSize, concurrency }).
CallTransform(p, items, chunkSize, concurrency) ==
    /\ CanStart(p)
    /\ calls' = calls + 1
    /\ LET me == [IdleProc EXCEPT !.kind = "transform", !.analyzedBefore = analyzed]
       IN  Commit(p, transformFeishuListWithAI([Here(p) EXCEPT !.me = me], items,
                        [chunkSize |-> chunkSize, concurrency |-> concurrency]))
    /\ UNCHANGED <<localTZ, splitVars, dedupVars, now, evictedKey, touchOrder, lastGet, lastSet,
                   supabaseConfigured, db, analyzed>>

Next ==
    \/ \E p \in Callers, q \in Queries : fetchFromFeishu(p, q.from, q.to, q.withAI)
    \/ \E p \in Callers, outcome \in {"ok", "error"} : GetFeedbackSettles(p, outcome)
    \/ \E p \in Callers : \E k \in 1..Len(proc[p].batch), outcome \in FetchOutcomes :
          FetchSettles(p, k, outcome)
    \/ \E p \in Callers : \E k \in 1..Len(proc[p].aiBatch) :
          \E response \in Responses(proc[p].aiBatch[k].arg) : AnalysisSettles(p, k, response)
    \/ \E k \in 1..Len(upserts), outcome \in UpsertOutcomes : UpsertSettles(k, outcome)
    \/ \E p \in Callers, items \in TransformInputs,
          chunkSize \in 1..MaxChunkSize, concurrency \in 1..MaxConcurrency :
          CallTransform(p, items, chunkSize, concurrency)

Spec == Init /\ [][Next]_vars

(***************************************************************************)
(* What the claims speak of.                                               *)
(***************************************************************************)
\* The items of the chunks a run has sent to the provider so far.
SentItems(me) ==
    Flatten([k \in 1..Len(me.aiBatch) |->
                IF me.aiBatch[k].state = "waiting" THEN <<>> ELSE me.aiBatch[k].arg])

\* The records the upstream returned for the date chunks, in chunk order.
InChunkOrder(dateChunks) == Flatten([k \in 1..Len(dateChunks) |-> FetchList(dateChunks[k])])

HasWaiting(slots) == \E k \in 1..Len(slots) : slots[k].state = "waiting"

(***************************************************************************)
(* C1: over the runs of analyzeInBatch, within the content cache's TTL and *)
(* capacity, a content string is sent to the provider at most once: not    *)
(* twice in one run, and not again after an earlier run got a verdict for  *)
(* it; items with identical text end up with one shared verdict.           *)
(***************************************************************************)
C1_ContentSentAtMostOnce ==
    \A p \in Callers :
        LET me == proc[p]
            sent == SentItems(me)
            items == me.feedbackItems
        IN  /\ \A a, b \in 1..Len(sent) : sent[a].content = sent[b].content => a = b
            /\ \A a \in 1..Len(sent) : sent[a].content \notin me.analyzedBefore
            /\ \A a, b \in 1..Len(items) :
                  ( /\ items[a].content = items[b].content
                    /\ MapHas(me.results, items[a].id)
                    /\ MapHas(me.results, items[b].id) )
                  => MapGet(me.results, items[a].id) = MapGet(me.results, items[b].id)

(***************************************************************************)
(* C2: within one call, the chunk fetches in flight never exceed 5 and the *)
(* provider calls in flight never exceed the run's concurrency.            *)
(***************************************************************************)
C2_InFlightWithinWindow ==
    \A p \in Callers :
        /\ NumPending(proc[p].batch) <= FetchConcurrency
        /\ NumPending(proc[p].aiBatch) <= proc[p].concurrency

\* A run with a full window in flight while further chunks wait their turn.
C2_Witness ==
    \E p \in Callers :
        /\ proc[p].concurrency >= 2
        /\ NumPending(proc[p].aiBatch) = proc[p].concurrency
        /\ HasWaiting(proc[p].aiBatch)

(***************************************************************************)
(* C3: once the fetch loop of a query is over, allRawData is the           *)
(* concatenation of the chunks' records in chunk order, in whatever order  *)
(* the fetches completed.                                                  *)
(***************************************************************************)
C3_AssembledInChunkOrder ==
    \A p \in Callers :
        (proc[p].kind = "query" /\ proc[p].pc \in {"analyzing", "done"})
        => proc[p].allRawData = InChunkOrder(proc[p].dateChunks)

\* A finished query whose first two chunks both returned records.
C3_Witness ==
    \E p \in Callers :
        /\ proc[p].kind = "query" /\ proc[p].pc = "done"
        /\ Len(proc[p].dateChunks) >= 2
        /\ FetchList(proc[p].dateChunks[1]) # <<>>
        /\ FetchList(proc[p].dateChunks[2]) # <<>>
        /\ FetchList(proc[p].dateChunks[1]) # FetchList(proc[p].dateChunks[2])
        /\ Len(proc[p].allRawData) >= 4

(***************************************************************************)
(* C4: once a chunk fetch of a query has failed, the query has failed      *)
(* with that error: it returns nothing, writes nothing to the query result *)
(* cache and starts no upsert.                                             *)
(***************************************************************************)
C4_ChunkFailureAbortsQuery ==
    \A p \in Callers :
        proc[p].chunkFailed
        => /\ proc[p].pc = "failed"
           /\ proc[p].error \in FetchOutcomes \ {"ok"}
           /\ ~proc[p].returned.done
           /\ ~proc[p].wroteCache
           /\ ~proc[p].upsertStarted

\* A query that failed although another of its chunks returned records.
C4_Witness ==
    \E p \in Callers :
        /\ proc[p].pc = "failed"
        /\ \E k \in 1..Len(proc[p].batch) :
              proc[p].batch[k].state = "fulfilled" /\ proc[p].batch[k].data # <<>>
        /\ \E k \in 1..Len(proc[p].batch) : proc[p].batch[k].state = "rejected"

(***************************************************************************)
(* C5: a provider failure for one chunk is isolated to it: no provider     *)
(* call rejects, a call fails a query only through a chunk fetch, and at   *)
(* the end of the run every item of every chunk whose call succeeded is in *)
(* the map with the provider's result, while the items of a failed chunk   *)
(* are absent from it.                                                     *)
(***************************************************************************)
C5_SucceededChunkFullyMapped ==
    \A p \in Callers :
        LET me == proc[p] IN
        /\ \A k \in 1..Len(me.aiBatch) : me.aiBatch[k].state # "rejected"
        /\ me.pc = "failed" => me.chunkFailed
        /\ me.pc = "done" =>
              \A k \in 1..Len(me.aiBatch) :
                 LET chunk == me.aiBatch[k].arg
                     response == me.aiBatch[k].response
                 IN  \A idx \in 1..Len(chunk) :
                        IF response.ok
                        THEN /\ MapHas(me.results, chunk[idx].id)
                             /\ idx <= Len(response.parsed)
                             /\ MapGet(me.results, chunk[idx].id) = response.parsed[idx]
                        ELSE ~MapHas(me.results, chunk[idx].id)

(***************************************************************************)
(* C5, amended: as C5, but of a chunk whose call succeeded, the items in   *)
(* the map are those at the positions the provider's array covers, each    *)
(* with the array's entry at its position; the items past the end of the   *)
(* array are absent from the map, like those of a failed chunk.            *)
(***************************************************************************)
C5_CoveredPositionsMapped ==
    \A p \in Callers :
        LET me == proc[p] IN
        /\ \A k \in 1..Len(me.aiBatch) : me.aiBatch[k].state # "rejected"
        /\ me.pc = "failed" => me.chunkFailed
        /\ me.pc = "done" =>
              \A k \in 1..Len(me.aiBatch) :
                 LET chunk == me.aiBatch[k].arg
                     response == me.aiBatch[k].response
                 IN  \A idx \in 1..Len(chunk) :
                        IF response.ok /\ idx <= Len(response.parsed)
                        THEN /\ MapHas(me.results, chunk[idx].id)
                             /\ MapGet(me.results, chunk[idx].id) = response.parsed[idx]
                        ELSE ~MapHas(me.results, chunk[idx].id)

\* A finished run with a failed chunk and a chunk answered by a short array.
C5_Witness ==
    \E p \in Callers :
        /\ proc[p].pc = "done"
        /\ \E k \in 1..Len(proc[p].aiBatch) : ~proc[p].aiBatch[k].response.ok
        /\ \E k \in 1..Len(proc[p].aiBatch) :
              /\ proc[p].aiBatch[k].response.ok
              /\ Len(proc[p].aiBatch[k].response.parsed) > 0
              /\ Len(proc[p].aiBatch[k].response.parsed) < Len(proc[p].aiBatch[k].arg)

(***************************************************************************)
(* C6: when transformFeishuListWithAI has run analyzeInBatch, every record *)
(* it returns whose id is missing from the map carries the default result: *)
(* sentiment Pending, category Unclassified, no tags and no summary.       *)
(***************************************************************************)
C6_MissingGetsDefault ==
    \A p \in Callers :
        (proc[p].pc = "done" /\ BatchItems(proc[p].feedbackItems) # <<>>)
        => \A k \in 1..Len(proc[p].returned.value) :
              LET item == proc[p].returned.value[k] IN
              ~MapHas(proc[p].results, item.id)
              => /\ item.sentiment = getDefaultAnalysis.sentiment
                 /\ item.category = getDefaultAnalysis.category
                 /\ item.tags = getDefaultAnalysis.tags
                 /\ item.aiSummary = NoSummary

(***************************************************************************)
(* C7: when a chunk fetch of a window fails, the failure reaches the       *)
(* caller only after every sibling fetch of the window has settled.        *)
(***************************************************************************)
C7_FailureAfterSiblingsSettle ==
    \A p \in Callers : proc[p].pc = "failed" => ~AnyPending(proc[p].batch)

(***************************************************************************)
(* C7, amended: the failure reaches the caller in the step in which the    *)
(* first fetch of the window is rejected; the sibling fetches still in     *)
(* flight are not cancelled: they stay in flight and settle on their own.  *)
(***************************************************************************)
C7_FailureSurfacesAtFirstRejection ==
    [][\A p \in Callers :
          /\ proc'[p].pc = "fetching" =>
                \A k \in 1..Len(proc'[p].batch) : proc'[p].batch[k].state # "rejected"
          /\ (proc[p].pc = "fetching" /\ proc'[p].pc = "failed") =>
                /\ \E k \in 1..Len(proc[p].batch) :
                      /\ proc[p].batch[k].state = "pending"
                      /\ proc'[p].batch[k].state = "rejected"
                      /\ \A j \in 1..Len(proc[p].batch) :
                            j # k => proc'[p].batch[j] = proc[p].batch[j]
          /\ (proc[p].pc = "failed" /\ proc'[p].pc = "failed") =>
                /\ proc'[p].error = proc[p].error
                /\ \A k \in 1..Len(proc[p].batch) :
                      proc[p].batch[k].state # "pending"
                      => proc'[p].batch[k] = proc[p].batch[k]
      ]_vars

\* A failed query with a sibling fetch still in flight.
C7_Witness ==
    \E p \in Callers :
        /\ proc[p].pc = "failed"
        /\ AnyPending(proc[p].batch)
        /\ \E k \in 1..Len(proc[p].batch) : proc[p].batch[k].state = "fulfilled"

(***************************************************************************)
(* Specification SpecFlag: one LRUCache of capacity FlagMaxSize and TTL    *)
(* FlagTtl under every sequence of get, set and clear calls, with the      *)
(* clock advancing between calls.  lastSet remembers what the last set of  *)
(* each key stored, lastGet the last get, whether its key was stored when  *)
(* it was called, and what it returned.                                    *)
(***************************************************************************)
FlagMaxSize == 2
FlagTtl == 1
FlagMaxAccess == 3

FlagKeys == {CacheKey(1, to) : to \in 1..(FlagMaxSize + 1)}

FlagData == {<<>>, transformFeishuList(<<UpstreamData[1]>>)}

InitFlag ==
    /\ localTZ \in {tz \in TimeZones : tz.name = "UTC"}
    /\ IdleSplit
    /\ IdleDedup
    /\ now = 0
    /\ feedbackCache = NewLRUCache(FlagMaxSize, FlagTtl)
    /\ evictedKey = None
    /\ touchOrder = <<>>
    /\ lastGet = NoGet
    /\ lastSet = [key \in FlagKeys |-> NoSet]
    /\ IdlePipe

FlagGet(key, requireAI) ==
    /\ ( /\ MapHas(feedbackCache.cache, key)
         /\ now - MapGet(feedbackCache.cache, key).timestamp <= feedbackCache.ttl )
       => MapGet(feedbackCache.cache, key).accessCount < FlagMaxAccess
    /\ LET r == LRUGet(feedbackCache, now, key, requireAI) IN
          /\ feedbackCache' = [feedbackCache EXCEPT !.cache = r.cache]
          /\ lastGet' = [called |-> TRUE, key |-> key, requireAI |-> requireAI,
                         stored |-> MapHas(feedbackCache.cache, key),
                         hit |-> r.hit, data |-> r.data]
    /\ UNCHANGED <<localTZ, splitVars, dedupVars, now, evictedKey, touchOrder, lastSet,
                   pipeVars>>

FlagSet(key, data, aiAnalyzed) ==
    /\ feedbackCache' = [feedbackCache EXCEPT !.cache =
                            LRUSet(feedbackCache, now, key, data, aiAnalyzed)]
    /\ lastSet' = [lastSet EXCEPT ![key] = [written |-> TRUE, data |-> data,
                                            aiAnalyzed |-> aiAnalyzed, at |-> now]]
    /\ lastGet' = NoGet
    /\ UNCHANGED <<localTZ, splitVars, dedupVars, now, evictedKey, touchOrder, pipeVars>>

FlagClear ==
    /\ feedbackCache.cache # <<>>
    /\ feedbackCache' = [feedbackCache EXCEPT !.cache = LRUClear(feedbackCache)]
    /\ lastGet' = NoGet
    /\ UNCHANGED <<localTZ, splitVars, dedupVars, now, evictedKey, touchOrder, lastSet,
                   pipeVars>>

FlagTick ==
    /\ now < feedbackCache.ttl + 1
    /\ now' = now + 1
    /\ lastGet' = NoGet
    /\ UNCHANGED <<localTZ, splitVars, dedupVars, feedbackCache, evictedKey, touchOrder,
                   lastSet, pipeVars>>

NextFlag ==
    \/ \E key \in FlagKeys, requireAI \in BOOLEAN : FlagGet(key, requireAI)
    \/ \E key \in FlagKeys, data \in FlagData, aiAnalyzed \in BOOLEAN :
          FlagSet(key, data, aiAnalyzed)
    \/ FlagClear
    \/ FlagTick

SpecFlag == InitFlag /\ [][NextFlag]_vars

\* The last get was of a key whose last set had aiAnalyzed = false, the key
\* was still stored when get was called and the TTL had not elapsed.
GetAfterPlainSet ==
    /\ lastGet.called
    /\ lastGet.stored
    /\ lastSet[lastGet.key].written
    /\ ~lastSet[lastGet.key].aiAnalyzed
    /\ now - lastSet[lastGet.key].at <= feedbackCache.ttl

(***************************************************************************)
(* C11: after set(k, data, false), while k is stored and the TTL has not   *)
(* elapsed, get(k, true) is a miss and get(k, false) returns data.         *)
(***************************************************************************)
C11_PlainEntryMissesForAI ==
    GetAfterPlainSet =>
        IF lastGet.requireAI THEN ~lastGet.hit
        ELSE lastGet.hit /\ lastGet.data = lastSet[lastGet.key].data

\* get(k, true) missed an entry that holds a non-empty list, with the cache full.
C11_Witness ==
    /\ GetAfterPlainSet
    /\ lastGet.requireAI
    /\ ~lastGet.hit
    /\ lastSet[lastGet.key].data # <<>>
    /\ Len(feedbackCache.cache) = feedbackCache.maxSize

(***************************************************************************)
(* Specification SpecStore: the query pipeline with the persistent store   *)
(* configured.  The store outlives the process: at start it is empty or    *)
(* holds the rows that earlier queries of days 1 to 5 left in it, with the *)
(* first n of them enriched and the others still Pending.                  *)
(***************************************************************************)
\* What the pipeline returned for days 1 to 5 when the provider's verdict
\* covered its first n records.
EarlierResult(n) ==
    LET plain == transformFeishuList(SubSeq(UpstreamData, 1, 3))
        verdict == CHOOSE v \in Verdicts : v.sentiment = "Negative"
    IN  ApplyAll(plain, [k \in 1..n |-> [key |-> plain[k].id, value |-> verdict]])

StoreContents == {<<>>} \cup {UpsertRows(<<>>, EarlierResult(n), 1) : n \in 0..3}

StoreQueries == {q \in Queries : q.from <= q.to /\ q.to <= 5}

InitStore ==
    /\ localTZ \in {tz \in TimeZones : tz.name = "UTC"}
    /\ IdleSplit
    /\ IdleDedup
    /\ IdleLRU
    /\ analysisCache = NewAnalysisCache(5000, 24)
    /\ supabaseConfigured = TRUE
    /\ db \in StoreContents
    /\ upserts = <<>>
    /\ proc = [p \in Callers |-> IdleProc]
    /\ analyzed = {}
    /\ calls = 0

NextStore ==
    \/ \E p \in Callers, q \in StoreQueries : fetchFromFeishu(p, q.from, q.to, q.withAI)
    \/ \E p \in Callers, outcome \in {"ok", "error"} : GetFeedbackSettles(p, outcome)
    \/ \E p \in Callers : \E k \in 1..Len(proc[p].batch), outcome \in FetchOutcomes :
          FetchSettles(p, k, outcome)
    \/ \E p \in Callers : \E k \in 1..Len(proc[p].aiBatch) :
          \E response \in Responses(proc[p].aiBatch[k].arg) : AnalysisSettles(p, k, response)
    \/ \E k \in 1..Len(upserts), outcome \in UpsertOutcomes : UpsertSettles(k, outcome)

SpecStore == InitStore /\ [][NextStore]_vars

\* This step is caller p's call of fetchFromFeishu.
Calls(p) == calls' = calls + 1 /\ proc'[p].kind = "query"

\* The call p makes in this step was answered from the query result cache.
MemoryHit(p) == Calls(p) /\ proc'[p].pc = "done" /\ ~proc'[p].wroteCache

\* p's last call was a query of a range without AI that returned, and in
\* this step p queries the same range with AI required.
PlainThenAI(p) ==
    /\ proc[p].kind = "query" /\ proc[p].pc = "done" /\ ~proc[p].withAI
    /\ Calls(p)
    /\ proc'[p].withAI
    /\ proc'[p].from = proc[p].from /\ proc'[p].to = proc[p].to

(***************************************************************************)
(* C12: a query of a range with AI required that follows a query of the    *)
(* same range without AI is not answered from the query result cache with  *)
(* a list that holds unenriched (Pending) records: it misses and goes on   *)
(* to the store probe or the upstream fetch.                               *)
(***************************************************************************)
C12_AIQueryAfterPlainQueryMisses ==
    [][\A p \in Callers :
          PlainThenAI(p) =>
             ~( /\ MemoryHit(p)
                /\ \E k \in 1..Len(proc'[p].returned.value) :
                      proc'[p].returned.value[k].sentiment = Pending )
      ]_vars

\* In this step p's query returns the rows it read from the store.
EarlyReturn(p) ==
    /\ proc[p].pc = "db" /\ proc'[p].pc = "done"
    /\ proc'[p].batch = <<>>
    /\ proc'[p].returned.value # <<>>

(***************************************************************************)
(* C13: a query first probes the query result cache and on a hit returns   *)
(* the cached list with no store read, no upstream fetch and no AI call;   *)
(* the store is read only after a memory miss; the upstream fetch starts   *)
(* only after a memory miss with no store configured or after a store read *)
(* that did not return early; and a store read returns early only with     *)
(* the rows read, none of which needs analysis (AI required and sentiment  *)
(* Pending).                                                               *)
(***************************************************************************)
C13_ProbeOrder ==
    [][\A p \in Callers :
          LET me == proc[p]
              after == proc'[p]
              cached == LRUGet(feedbackCache, now, CacheKey(after.from, after.to),
                               after.withAI)
          IN  /\ (Calls(p) /\ cached.hit) =>
                    /\ after.pc = "done"
                    /\ after.returned = Returned(cached.data)
                    /\ after.batch = <<>> /\ after.aiBatch = <<>>
                    /\ upserts' = upserts
              /\ (after.pc = "db" /\ me.pc # "db") => (Calls(p) /\ ~cached.hit)
              /\ (after.pc = "fetching" /\ me.pc # "fetching") =>
                    \/ me.pc = "db"
                    \/ Calls(p) /\ ~cached.hit /\ ~supabaseConfigured
              /\ (after.pc = "analyzing" /\ me.pc # "analyzing") =>
                    me.pc = "fetching"
              /\ EarlyReturn(p) =>
                    /\ after.returned.value = DbQuery(db, me.from, me.to)
                    /\ ~(me.withAI /\ \E k \in 1..Len(after.returned.value) :
                            after.returned.value[k].sentiment = Pending)
      ]_vars

\* An AI query that returned the enriched rows of the store.
C13_Witness ==
    \E p \in Callers :
        /\ proc[p].kind = "query" /\ proc[p].pc = "done" /\ proc[p].withAI
        /\ proc[p].dateChunks = <<>>
        /\ proc[p].wroteCache
        /\ proc[p].returned.value # <<>>

(***************************************************************************)
(* C14: a query that found rows for its range in the store sends to the    *)
(* provider only records whose row it read as Pending: a record it read    *)
(* as enriched is not analysed again.                                      *)
(***************************************************************************)
C14_EnrichedRowsNotResent ==
    \A p \in Callers :
        LET sent == SentItems(proc[p])
            dbData == proc[p].dbData
        IN  \A a \in 1..Len(sent), k \in 1..Len(dbData) :
               dbData[k].id = sent[a].id => dbData[k].sentiment = Pending

(***************************************************************************)
(* Specification SpecContent: one AnalysisCache of capacity ContentMaxSize *)
(* and a TTL of ContentTtlHours under every sequence of get and set calls, *)
(* with the clock advancing by ContentTick minutes between calls, up to    *)
(* ContentMaxTicks times.  lastGet is the last call (set, get or the       *)
(* clock), lastSet what the last set of each content stored.               *)
(***************************************************************************)
ContentMaxSize == 2
ContentTtlHours == 1
ContentMaxTicks == 3
ContentTick == 30

Contents == {TextAa, TextBB, TextOk}

NoCall == [op |-> "none", content |-> <<>>, hit |-> FALSE, result |-> getDefaultAnalysis]

InitContent ==
    /\ localTZ \in {tz \in TimeZones : tz.name = "UTC"}
    /\ IdleSplit
    /\ IdleDedup
    /\ now = 0
    /\ feedbackCache = NewLRUCache(10, 5)
    /\ evictedKey = None
    /\ touchOrder = <<>>
    /\ lastGet = NoCall
    /\ lastSet = [content \in Contents |-> NoSet]
    /\ analysisCache = NewAnalysisCache(ContentMaxSize, ContentTtlHours)
    /\ supabaseConfigured = FALSE
    /\ db = <<>>
    /\ upserts = <<>>
    /\ proc = <<IdleProc>>
    /\ analyzed = {}
    /\ calls = 0

ContentGet(content) ==
    /\ LET r == AnalysisCacheGet(analysisCache, now, content) IN
          /\ analysisCache' = [analysisCache EXCEPT !.cache = r.cache]
          /\ lastGet' = [op |-> "get", content |-> content, hit |-> r.hit,
                         result |-> r.result]
    /\ UNCHANGED <<localTZ, splitVars, dedupVars, now, feedbackCache, evictedKey,
                   touchOrder, lastSet, supabaseConfigured, db, upserts, proc, analyzed,
                   calls>>

ContentSet(content, result) ==
    /\ analysisCache' = [analysisCache EXCEPT !.cache =
                            AnalysisCacheSet(analysisCache, now, content, result)]
    /\ lastSet' = [lastSet EXCEPT ![content] = [written |-> TRUE, data |-> result,
                                                aiAnalyzed |-> TRUE, at |-> now]]
    /\ lastGet' = [op |-> "set", content |-> content, hit |-> FALSE, result |-> result]
    /\ UNCHANGED <<localTZ, splitVars, dedupVars, now, feedbackCache, evictedKey,
                   touchOrder, supabaseConfigured, db, upserts, proc, analyzed, calls>>

ContentClock ==
    /\ now < ContentMaxTicks * ContentTick
    /\ now' = now + ContentTick
    /\ lastGet' = [NoCall EXCEPT !.op = "clock"]
    /\ UNCHANGED <<localTZ, splitVars, dedupVars, feedbackCache, evictedKey, touchOrder,
                   lastSet, pipeVars>>

NextContent ==
    \/ \E content \in Contents : ContentGet(content)
    \/ \E content \in Contents, result \in Verdicts : ContentSet(content, result)
    \/ ContentClock

SpecContent == InitContent /\ [][NextContent]_vars

(***************************************************************************)
(* C15: a get(c) that immediately follows set(c, r) returns r; a get(c)    *)
(* issued more than the TTL after the last set(c, .) is a miss and leaves  *)
(* no entry for c in the cache.                                            *)
(***************************************************************************)
C15_SetThenGet ==
    [][ /\ ( /\ lastGet.op = "set"
             /\ lastGet'.op = "get"
             /\ lastGet'.content = lastGet.content )
           => (lastGet'.hit /\ lastGet'.result = lastGet.result)
        /\ ( /\ lastGet'.op = "get"
             /\ lastSet'[lastGet'.content].written
             /\ now' - lastSet'[lastGet'.content].at > analysisCache.ttl )
           => /\ ~lastGet'.hit
              /\ ~MapHas(analysisCache'.cache, hashContent(lastGet'.content))
      ]_vars

\* The entries of a Map, whatever their insertion order.
Entries(m) == {m[k] : k \in 1..Len(m)}

\* p's last call was a run of transformFeishuListWithAI in which every
\* submitted item got a verdict, and in this step p runs it again on the
\* same list.
SameListAgain(p) ==
    /\ proc[p].kind = "transform" /\ proc[p].pc = "done"
    /\ LET batchItems == BatchItems(proc[p].feedbackItems) IN
          /\ batchItems # <<>>
          /\ \A k \in 1..Len(batchItems) : MapHas(proc[p].results, batchItems[k].id)
    /\ calls' = calls + 1
    /\ proc'[p].kind = "transform"
    /\ proc'[p].feedbackItems = proc[p].feedbackItems

(***************************************************************************)
(* C16: a second run of analyzeInBatch on the list of a first run in which *)
(* every item got a verdict sends nothing to the provider and returns a    *)
(* map with the same entries as the first run's.                           *)
(***************************************************************************)
C16_SecondRunFromCache ==
    [][\A p \in Callers :
          SameListAgain(p) =>
             /\ proc'[p].pc = "done"
             /\ proc'[p].aiBatch = <<>>
             /\ Entries(proc'[p].results) = Entries(proc[p].results)
      ]_vars

(***************************************************************************)
(* Specification SpecPair: two clients query the same range, with or       *)
(* without AI, and their calls interleave at every await.                  *)
(***************************************************************************)
Clients == {1, 2}

PairQueries == {q \in Queries : q.from = 1 /\ q.to = 5}

InitPair ==
    /\ localTZ \in {tz \in TimeZones : tz.name = "UTC"}
    /\ IdleSplit
    /\ IdleDedup
    /\ IdleLRU
    /\ analysisCache = NewAnalysisCache(5000, 24)
    /\ supabaseConfigured \in BOOLEAN
    /\ db = <<>>
    /\ upserts = <<>>
    /\ proc = [p \in Clients |-> IdleProc]
    /\ analyzed = {}
    /\ calls = 0

NextPair ==
    \/ \E p \in Clients, q \in PairQueries : fetchFromFeishu(p, q.from, q.to, q.withAI)
    \/ \E p \in Clients, outcome \in {"ok", "error"} : GetFeedbackSettles(p, outcome)
    \/ \E p \in Clients : \E k \in 1..Len(proc[p].batch), outcome \in FetchOutcomes :
          FetchSettles(p, k, outcome)
    \/ \E p \in Clients : \E k \in 1..Len(proc[p].aiBatch) :
          \E response \in Responses(proc[p].aiBatch[k].arg) : AnalysisSettles(p, k, response)
    \/ \E k \in 1..Len(upserts), outcome \in UpsertOutcomes : UpsertSettles(k, outcome)

SpecPair == InitPair /\ [][NextPair]_vars

\* In this step p's query runs feedbackCache.set.
Sets(p) ==
    /\ proc'[p].wroteCache
    /\ ~proc[p].wroteCache \/ (calls' = calls + 1 /\ proc'[p] # proc[p])

\* The list cached under key, or NotCalled.
CachedList(c, key) == IF MapHas(c.cache, key) THEN Returned(MapGet(c.cache, key).data)
                      ELSE NotCalled

\* p's call went to the upstream: it missed the query result cache and
\* the store did not answer it.
WentUpstream(p) == proc[p].kind = "query" /\ proc[p].dateChunks # <<>>

(***************************************************************************)
(* C17: concurrent queries of one range that miss the caches run           *)
(* independently: each has its own upstream requests and provider calls in *)
(* flight and waits for nothing else, each that returns has run            *)
(* feedbackCache.set with the list it returns, and the cached entry is     *)
(* always the one the last set wrote.                                      *)
(***************************************************************************)
C17_IndependentLastSetWins ==
    /\ [](\A p \in Clients :
            /\ proc[p].pc = "fetching" => AnyPending(proc[p].batch)
            /\ proc[p].pc = "analyzing" => AnyPending(proc[p].aiBatch)
            /\ (WentUpstream(p) /\ proc[p].pc = "done") => proc[p].wroteCache)
    /\ [][ /\ \A p \in Clients :
                Sets(p) => CachedList(feedbackCache', CacheKey(proc'[p].from, proc'[p].to))
                              = proc'[p].returned
           /\ (\A p \in Clients : ~Sets(p)) =>
                \A q \in PairQueries :
                   CachedList(feedbackCache', CacheKey(q.from, q.to))
                      = CachedList(feedbackCache, CacheKey(q.from, q.to))
         ]_vars

\* Both clients sent record 41 to the provider and got a verdict for it,
\* they returned different lists, and the cache holds the list of one.
C17_Witness ==
    /\ \A p \in Clients :
          /\ WentUpstream(p) /\ proc[p].pc = "done" /\ proc[p].wroteCache
          /\ proc[p].aiBatch # <<>>
          /\ proc[p].aiBatch[1].state = "fulfilled"
          /\ proc[p].aiBatch[1].arg[1].id = FeedbackId(41)
          /\ proc[p].aiBatch[1].response.parsed # <<>>
    /\ proc[1].returned # proc[2].returned
    /\ CachedList(feedbackCache, CacheKey(1, 5)) \in {proc[1].returned, proc[2].returned}

\* In this step a query starts an upsertFeedback.
StartsUpsert(p) == proc'[p].upsertStarted /\ Len(upserts') = Len(upserts) + 1

(***************************************************************************)
(* C18: a query does not await the upsert it starts: in the step that      *)
(* starts it the query returns its whole sorted list, the list handed to   *)
(* the upsert, and writes it to the query result cache; and however the    *)
(* upsert settles, no caller's state and no cache entry changes.           *)
(***************************************************************************)
C18_UpsertNeverFailsQuery ==
    [][ /\ \A p \in Callers :
              StartsUpsert(p) =>
                 /\ proc'[p].pc = "done"
                 /\ proc'[p].returned = Returned(upserts'[Len(upserts')])
                 /\ Len(proc'[p].returned.value) = Len(Deduplicate(proc'[p].allRawData))
                 /\ CachedList(feedbackCache', CacheKey(proc'[p].from, proc'[p].to))
                       = proc'[p].returned
        /\ Len(upserts') < Len(upserts) => (proc' = proc /\ feedbackCache' = feedbackCache)
      ]_vars

\* A query has returned its list and cached it, its upsert has settled,
\* and the store has none of its rows.
C18_Witness ==
    \E p \in Callers :
        /\ proc[p].pc = "done" /\ proc[p].upsertStarted
        /\ upserts = <<>> /\ db = <<>>
        /\ proc[p].returned.value # <<>>
        /\ CachedList(feedbackCache, CacheKey(proc[p].from, proc[p].to)) = proc[p].returned

\* In this step p's read of the store fails.
ProbeFails(p) == proc[p].pc = "db" /\ proc'[p].dbFailed

\* The list the upstream path builds for a range before any enrichment.
UpstreamList(me) ==
    SortByDateDesc(transformFeishuList(Deduplicate(InChunkOrder(me.dateChunks))))

IdList(list) == [k \in 1..Len(list) |-> list[k].id]

(***************************************************************************)
(* C19: a failed read of the store does not fail the query and writes      *)
(* nothing to the query result cache: the query goes on to the upstream    *)
(* fetch as if the store held nothing, fails only if an upstream request   *)
(* fails, and otherwise returns the records of the upstream.               *)
(***************************************************************************)
C19_FailedProbeFallsThrough ==
    /\ [][\A p \in Callers :
            ProbeFails(p) =>
               /\ feedbackCache' = feedbackCache
               /\ proc'[p].pc = "fetching"
               /\ proc'[p].error = None
               /\ proc'[p].dateChunks = splitDateRange(localTZ, proc[p].from, proc[p].to, 3)
         ]_vars
    /\ [](\A p \in Callers :
            proc[p].dbFailed =>
               /\ proc[p].pc = "failed" => proc[p].chunkFailed
               /\ proc[p].pc = "done" =>
                     /\ IdList(proc[p].returned.value) = IdList(UpstreamList(proc[p]))
                     /\ ~proc[p].withAI => proc[p].returned.value = UpstreamList(proc[p]))

\* The store holds rows, the read of them failed, and the query returned
\* the records of the upstream.
C19_Witness ==
    \E p \in Callers :
        /\ proc[p].dbFailed /\ proc[p].pc = "done"
        /\ db # <<>>
        /\ proc[p].returned.value # <<>>

(***************************************************************************)
(* Specification SpecPaging: getFeedback({ from, to, fetchAll: true }) on  *)
(* an unchanged store.  The store answers each page request with the       *)
(* matching rows ordered by date, newest first; the order of rows of equal *)
(* date is not determined by the request and is chosen anew for each page. *)
(* BATCH_SIZE, 1000 in the source, is scaled down so that stores of up to  *)
(* PagingMaxRows rows span several pages.                                  *)
(***************************************************************************)
BATCH_SIZE == 2
PagingMaxRows == 4

\* The dates of the stored rows: day 1 (twice), day 2, day 3.
PagingTimes == {30, 40, 50, 80}

PagingRanges == {[from |-> 1, to |-> 1], [from |-> 1, to |-> 2]}

\* A store of rows 1..n with the given dates.
PagingStore(times) ==
    UpsertRows(<<>>, transformFeishuList([k \in 1..Len(times) |->
                   RawItem(k, times[k], TextOk, TextEmpty, TypeBug, 1)]), 1)

PagingStores == {PagingStore(times) : times \in SeqsUpTo(PagingTimes, PagingMaxRows)}

\* gte('date', from), lte('date', to + 'T23:59:59')
buildFeedbackQuery(rows, from, to) ==
    SelectSeq(MapValues(rows), LAMBDA row :
        ParseDate(from) <= row.date /\ row.date < ParseDate(to + 1))

\* .order('date', { ascending: false }): the orders the store may answer in.
OrderByDateDesc(rows) ==
    { [k \in 1..Len(rows) |-> rows[f[k]]] : f \in
        { g \in Permutations(1..Len(rows)) :
            \A a, b \in 1..Len(rows) : a < b => rows[g[a]].date >= rows[g[b]].date } }

\* .range(from, to): rows from..to of the ordered result, zero-based.
RangeOf(rows, from, to) == SubSeq(rows, from + 1, Min(to + 1, Len(rows)))

\* The locals of getAllFeedback; offsets are the offsets requested so far.
IdlePaging ==
    [ pc |-> "idle", from |-> 0, to |-> 0,
      allData |-> <<>>, offset |-> 0, totalCount |-> 0, hasMore |-> FALSE,
      offsets |-> <<>>, returned |-> NotCalled, total |-> 0, error |-> None ]

\* The body of the while loop after the await, then the head of the next
\* iteration or the return.
PageLoop(me, data, count) ==
    LET allData == me.allData \o data
        totalCount == OrDefault(count, Len(allData))
        hasMore == Len(data) = BATCH_SIZE /\ Len(allData) < totalCount
    IN  IF Len(data) > 0 /\ hasMore
        THEN [me EXCEPT !.allData = allData, !.totalCount = totalCount,
                        !.offset = @ + BATCH_SIZE, !.hasMore = TRUE,
                        !.offsets = Append(@, me.offset + BATCH_SIZE)]
        ELSE IF Len(data) > 0
        THEN [me EXCEPT !.allData = allData, !.totalCount = totalCount,
                        !.offset = @ + BATCH_SIZE, !.hasMore = FALSE,
                        !.pc = "done", !.returned = Returned(allData),
                        !.total = totalCount]
        ELSE [me EXCEPT !.hasMore = FALSE,
                        !.pc = "done", !.returned = Returned(me.allData),
                        !.total = me.totalCount]

InitPaging ==
    /\ localTZ \in {tz \in TimeZones : tz.name = "UTC"}
    /\ IdleSplit
    /\ IdleDedup
    /\ IdleLRU
    /\ analysisCache = NewAnalysisCache(5000, 24)
    /\ supabaseConfigured = TRUE
    /\ db \in PagingStores
    /\ upserts = <<>>
    /\ proc = [p \in Callers |-> IdlePaging]
    /\ analyzed = {}
    /\ calls = 0

\* getFeedback with fetchAll: getAllFeedback up to its first await.
getAllFeedback(p, from, to) ==
    /\ proc[p].pc = "idle"
    /\ proc' = [proc EXCEPT ![p] = [IdlePaging EXCEPT !.pc = "page", !.from = from, !.to = to,
                                                      !.hasMore = TRUE, !.offsets = <<0>>]]
    /\ UNCHANGED <<localTZ, splitVars, dedupVars, lruVars, analysisCache,
                   supabaseConfigured, db, upserts, analyzed, calls>>

\* The store answers the page request with the rows of the range in the
\* order ordered.
PageSettles(p, ordered) ==
    /\ proc[p].pc = "page"
    /\ ordered \in OrderByDateDesc(buildFeedbackQuery(db, proc[p].from, proc[p].to))
    /\ LET me == proc[p]
           data == RangeOf(ordered, me.offset, me.offset + BATCH_SIZE - 1)
       IN  proc' = [proc EXCEPT ![p] = PageLoop(me, data, Len(ordered))]
    /\ UNCHANGED <<localTZ, splitVars, dedupVars, lruVars, analysisCache,
                   supabaseConfigured, db, upserts, analyzed, calls>>

\* The page request fails: getAllFeedback throws.
PageFails(p) ==
    /\ proc[p].pc = "page"
    /\ proc' = [proc EXCEPT ![p] = [@ EXCEPT !.pc = "failed", !.error = "error"]]
    /\ UNCHANGED <<localTZ, splitVars, dedupVars, lruVars, analysisCache,
                   supabaseConfigured, db, upserts, analyzed, calls>>

NextPaging ==
    \/ \E p \in Callers, r \in PagingRanges : getAllFeedback(p, r.from, r.to)
    \/ \E p \in Callers :
          \E ordered \in OrderByDateDesc(buildFeedbackQuery(db, proc[p].from, proc[p].to)) :
             PageSettles(p, ordered)
    \/ \E p \in Callers : PageFails(p)

SpecPaging == InitPaging /\ [][NextPaging]_vars

IsSortedByDateDesc(list) ==
    \A a, b \in 1..Len(list) : a < b => list[a].date >= list[b].date

\* The ids of the raw upstream records, as the transformer writes them.
FetchedIds(allRawData) == {FeedbackId(allRawData[k].id) : k \in 1..Len(allRawData)}

(***************************************************************************)
(* C21: a query that went upstream and returned has returned exactly one   *)
(* record for each id among the records fetched in all its chunks, in date *)
(* order, newest first, and the step in which it returns leaves that list  *)
(* in the query result cache under the key of its range.                   *)
(***************************************************************************)
C21_OnePerIdNewestFirst ==
    /\ [](\A p \in Callers :
            (WentUpstream(p) /\ proc[p].pc = "done") =>
               LET list == proc[p].returned.value IN
                  /\ Ids(list) = FetchedIds(proc[p].allRawData)
                  /\ Len(list) = Cardinality(FetchedIds(proc[p].allRawData))
                  /\ IsSortedByDateDesc(list))
    /\ [][\A p \in Callers :
            (WentUpstream(p)' /\ proc'[p].pc = "done" /\ proc[p].pc # "done") =>
               CachedList(feedbackCache', CacheKey(proc'[p].from, proc'[p].to))
                  = proc'[p].returned
         ]_vars

\* A returned list of several records, fewer than the chunks delivered:
\* some id came in two chunks.
C21_Witness ==
    \E p \in Callers :
        /\ WentUpstream(p) /\ proc[p].pc = "done"
        /\ Len(proc[p].returned.value) >= 2
        /\ Len(proc[p].allRawData) > Len(proc[p].returned.value)

(***************************************************************************)
(* Specification SpecEnrich: the records of a list from the transformer    *)
(* to the caller.  A list is transformed, may be enriched with the         *)
(* verdicts the provider gave for some of its records, may be written to   *)
(* the store, and may be read back from it.  The provider's verdicts obey  *)
(* the response schema: a sentiment and a category of the enumerations,    *)
(* an array of strings of any length, a string of any length.              *)
(***************************************************************************)
EnrichMaxItems == 2

\* A text that holds five of the keywords.
TextKeywords == Keywords[1] \o Keywords[2] \o Keywords[3] \o Keywords[4] \o Keywords[5]

EnrichSamples ==
    << RawItem(41, 30, TextAa, TextEmpty, TypeBug, 1),
       RawItem(46, 40, TextKeywords, TextEmpty, TypeMoment, 2),
       RawItem(44, 50, TextBlank, TextEmpty, TypeBug, 1) >>

EnrichInputs == {l \in SubLists(EnrichSamples) : Len(l) <= EnrichMaxItems}

\* A tag, "t".
TagT == <<116>>

\* The verdicts of Verdicts, one with an empty summary and one with six tags.
EnrichVerdicts ==
    Verdicts \cup
    { [sentiment |-> "Neutral", category |-> "Other", tags |-> <<TagT, TagT>>,
       summary |-> <<>>],
      [sentiment |-> "Positive", category |-> "UX/UI",
       tags |-> <<TagT, TagT, TagT, TagT, TagT, TagT>>, summary |-> <<115, 51>>] }

\* The maps analyzeInBatch may return for batchItems: a verdict for the
\* items of covered, none for the others.
AnalysisMaps(batchItems) ==
    { LET ks == SelectSeq([k \in 1..Len(batchItems) |-> k], LAMBDA k : k \in covered)
      IN  [j \in 1..Len(ks) |-> [key |-> batchItems[ks[j]].id, value |-> f[ks[j]]]] :
        covered \in SUBSET (1..Len(batchItems)),
        f \in [1..Len(batchItems) -> EnrichVerdicts] }

\* A caller's list and how it came to be.
IdleEnrich == [pc |-> "idle", feedbackItems |-> <<>>, persisted |-> FALSE]

InitEnrich ==
    /\ localTZ \in {tz \in TimeZones : tz.name = "UTC"}
    /\ IdleSplit
    /\ IdleDedup
    /\ IdleLRU
    /\ analysisCache = NewAnalysisCache(5000, 24)
    /\ supabaseConfigured = TRUE
    /\ db = <<>>
    /\ upserts = <<>>
    /\ proc = [p \in Callers |-> IdleEnrich]
    /\ analyzed = {}
    /\ calls = 0

\* transformFeishuList(items), or step 1 of transformFeishuListWithAI.
EnrichTransform(p, items) ==
    /\ proc[p].pc = "idle"
    /\ proc' = [proc EXCEPT ![p] = [@ EXCEPT !.pc = "plain",
                                             !.feedbackItems = transformFeishuList(items)]]
    /\ UNCHANGED <<localTZ, splitVars, dedupVars, lruVars, analysisCache,
                   supabaseConfigured, db, upserts, analyzed, calls>>

\* Step 4 of transformFeishuListWithAI with the map analysisResults.
EnrichApply(p, analysisResults) ==
    /\ proc[p].pc = "plain"
    /\ analysisResults \in AnalysisMaps(BatchItems(proc[p].feedbackItems))
    /\ proc' = [proc EXCEPT ![p] = [@ EXCEPT !.pc = "enriched",
                                             !.feedbackItems = ApplyAll(@, analysisResults)]]
    /\ UNCHANGED <<localTZ, splitVars, dedupVars, lruVars, analysisCache,
                   supabaseConfigured, db, upserts, analyzed, calls>>

\* upsertFeedback(feedbackList) writes the rows.
EnrichPersist(p) ==
    /\ proc[p].pc \in {"plain", "enriched"}
    /\ ~proc[p].persisted
    /\ db' = UpsertRows(db, proc[p].feedbackItems, 1)
    /\ proc' = [proc EXCEPT ![p] = [@ EXCEPT !.persisted = TRUE]]
    /\ UNCHANGED <<localTZ, splitVars, dedupVars, lruVars, analysisCache,
                   supabaseConfigured, upserts, analyzed, calls>>

\* A later query reads the rows of the store.
EnrichRead(p) ==
    /\ proc[p].persisted
    /\ proc[p].pc # "read"
    /\ proc' = [proc EXCEPT ![p] = [@ EXCEPT !.pc = "read",
                                             !.feedbackItems = DbQuery(db, 0, 16)]]
    /\ UNCHANGED <<localTZ, splitVars, dedupVars, lruVars, analysisCache,
                   supabaseConfigured, db, upserts, analyzed, calls>>

NextEnrich ==
    \/ \E p \in Callers, items \in EnrichInputs : EnrichTransform(p, items)
    \/ \E p \in Callers :
          \E analysisResults \in AnalysisMaps(BatchItems(proc[p].feedbackItems)) :
             EnrichApply(p, analysisResults)
    \/ \E p \in Callers : EnrichPersist(p)
    \/ \E p \in Callers : EnrichRead(p)

SpecEnrich == InitEnrich /\ [][NextEnrich]_vars

(***************************************************************************)
(* C22: in every list a record whose sentiment is Pending has no           *)
(* aiSummary, and a record whose sentiment was set by enrichment has one:  *)
(* the two are set together.                                               *)
(***************************************************************************)
C22_SentimentAndSummaryTogether ==
    \A p \in Callers :
        \A k \in 1..Len(proc[p].feedbackItems) :
            LET item == proc[p].feedbackItems[k] IN
               (item.sentiment = Pending) <=> ~item.aiSummary.present

(***************************************************************************)
(* C23: every record of every list has at most 5 tags, before and after    *)
(* enrichment.                                                             *)
(***************************************************************************)
C23_AtMostFiveTags ==
    \A p \in Callers :
        \A k \in 1..Len(proc[p].feedbackItems) :
            Len(proc[p].feedbackItems[k].tags) <= 5

(***************************************************************************)
(* Specification SpecEvict: one AnalysisCache of capacity EvictMaxSize     *)
(* under set calls for fresh contents (the one-character texts <<1>>,      *)
(* <<2>>, ..., up to EvictMaxFresh of them), set calls for the first       *)
(* contents again, and get calls.  The clock stands still.  lastGet is the *)
(* last call; lastSet tells how many entries the last set removed and      *)
(* whether one of them was read by the call before it.                     *)
(***************************************************************************)
EvictMaxSize == 102
EvictMaxFresh == 105

\* The contents that are set again and read.
EvictProbe == {<<1>>, <<2>>}

EvictResult == CHOOSE v \in Verdicts : v.sentiment = "Negative"

NoEviction == [written |-> FALSE, evicted |-> 0, readBefore |-> FALSE]

InitEvict ==
    /\ localTZ \in {tz \in TimeZones : tz.name = "UTC"}
    /\ IdleSplit
    /\ IdleDedup
    /\ now = 0
    /\ feedbackCache = NewLRUCache(10, 5)
    /\ evictedKey = None
    /\ touchOrder = <<>>
    /\ lastGet = NoCall
    /\ lastSet = NoEviction
    /\ analysisCache = NewAnalysisCache(EvictMaxSize, 24)
    /\ supabaseConfigured = FALSE
    /\ db = <<>>
    /\ upserts = <<>>
    /\ proc = <<IdleProc>>
    /\ analyzed = {}
    /\ calls = 0

\* analysisCache.set(content, result)
EvictSetContent(content) ==
    /\ analysisCache' = [analysisCache EXCEPT !.cache =
                            AnalysisCacheSet(analysisCache, now, content, EvictResult)]
    /\ lastGet' = [op |-> "set", content |-> content, hit |-> FALSE, result |-> EvictResult]
    /\ lastSet' = [written |-> TRUE,
                   evicted |-> Cardinality({k \in 1..Len(analysisCache.cache) :
                                  ~MapHas(analysisCache'.cache, analysisCache.cache[k].key)}),
                   readBefore |-> /\ lastGet.op = "get" /\ lastGet.hit
                                  /\ ~MapHas(analysisCache'.cache, hashContent(lastGet.content))]
    /\ UNCHANGED <<localTZ, splitVars, dedupVars, now, feedbackCache, evictedKey,
                   touchOrder, supabaseConfigured, db, upserts, proc, analyzed>>

\* set of a content not set before.
EvictSetFresh ==
    /\ calls < EvictMaxFresh
    /\ calls' = calls + 1
    /\ EvictSetContent(<<calls + 1>>)

\* set of a content that was set before.
EvictSetAgain(content) ==
    /\ content[1] <= calls
    /\ calls' = calls
    /\ EvictSetContent(content)

\* analysisCache.get(content)
EvictGet(content) ==
    /\ LET r == AnalysisCacheGet(analysisCache, now, content) IN
          /\ analysisCache' = [analysisCache EXCEPT !.cache = r.cache]
          /\ lastGet' = [op |-> "get", content |-> content, hit |-> r.hit,
                         result |-> r.result]
    /\ UNCHANGED <<localTZ, splitVars, dedupVars, now, feedbackCache, evictedKey,
                   touchOrder, lastSet, supabaseConfigured, db, upserts, proc, analyzed,
                   calls>>

NextEvict ==
    \/ EvictSetFresh
    \/ \E content \in EvictProbe : EvictSetAgain(content)
    \/ \E content \in EvictProbe : EvictGet(content)

SpecEvict == InitEvict /\ [][NextEvict]_vars

\* The first n keys of the Map, in insertion order.
FirstKeys(cache, n) == {cache[k].key : k \in 1..Min(n, Len(cache))}

AgeAtGet == now - lastSet[lastGet.key].at

(***************************************************************************)
(* C25: a get returns only what the last set of its key stored, and only   *)
(* if that set ran no more than the TTL ago, hits in between or not; a get *)
(* that finds an entry older than the TTL returns a miss and leaves no     *)
(* entry for the key.                                                      *)
(***************************************************************************)
C25_TtlRunsFromSet ==
    lastGet.called =>
       /\ lastGet.hit =>
             /\ lastSet[lastGet.key].written
             /\ lastGet.data = lastSet[lastGet.key].data
             /\ AgeAtGet <= feedbackCache.ttl
       /\ (lastGet.stored /\ AgeAtGet > feedbackCache.ttl) =>
             /\ ~lastGet.hit
             /\ ~MapHas(feedbackCache.cache, lastGet.key)

\* A get found an entry older than the TTL and removed it.
C25_Witness ==
    /\ lastGet.called /\ lastGet.stored /\ ~lastGet.requireAI
    /\ AgeAtGet > feedbackCache.ttl
    /\ ~lastGet.hit
    /\ ~MapHas(feedbackCache.cache, lastGet.key)

(***************************************************************************)
(* Specification SpecRefresh: queries and forced refreshes of the          *)
(* scheduled task, one call after the other.  A refresh that fails returns *)
(* { success: false, error }: its caller is then at pc "failed" with the   *)
(* error.                                                                  *)
(***************************************************************************)
RefreshQueries ==
    { [from |-> 1, to |-> 2, withAI |-> TRUE],
      [from |-> 1, to |-> 5, withAI |-> FALSE] }

RefreshRanges == {[from |-> 1, to |-> 2], [from |-> 3, to |-> 2]}

\* A call of forceRefreshFeedback(from, to), up to its first await.
forceRefreshFeedback(p, from, to) ==
    /\ CanStart(p)
    /\ calls' = calls + 1
    /\ LET me == [IdleProc EXCEPT !.kind = "refresh", !.from = from, !.to = to,
                                  !.withAI = TRUE, !.analyzedBefore = analyzed]
           st == [Here(p) EXCEPT !.me = me, !.fc.cache = LRUClear(feedbackCache)]
       IN  Commit(p, FetchFromApi(st))
    /\ UNCHANGED <<localTZ, splitVars, dedupVars, now, evictedKey, touchOrder, lastGet, lastSet,
                   supabaseConfigured, db, analyzed>>

\* The upsertFeedback a refresh awaits settles.
RefreshUpsertSettles(p, outcome) ==
    /\ proc[p].pc = "persisting"
    /\ db' = IF outcome = "ok" THEN UpsertRows(db, proc[p].feedbackItems, 1) ELSE db
    /\ Commit(p, IF outcome = "reject"
                 THEN [Here(p) EXCEPT !.me.pc = "failed", !.me.error = outcome]
                 ELSE RefreshReturn(Here(p), proc[p].feedbackItems))
    /\ UNCHANGED <<localTZ, splitVars, dedupVars, now, evictedKey, touchOrder, lastGet, lastSet,
                   supabaseConfigured, analyzed, calls>>

NextRefresh ==
    \/ \E p \in Callers, q \in RefreshQueries : fetchFromFeishu(p, q.from, q.to, q.withAI)
    \/ \E p \in Callers, r \in RefreshRanges : forceRefreshFeedback(p, r.from, r.to)
    \/ \E p \in Callers, outcome \in {"ok", "error"} : GetFeedbackSettles(p, outcome)
    \/ \E p \in Callers : \E k \in 1..Len(proc[p].batch), outcome \in FetchOutcomes :
          FetchSettles(p, k, outcome)
    \/ \E p \in Callers : \E k \in 1..Len(proc[p].aiBatch) :
          \E response \in Responses(proc[p].aiBatch[k].arg) : AnalysisSettles(p, k, response)
    \/ \E k \in 1..Len(upserts), outcome \in UpsertOutcomes : UpsertSettles(k, outcome)
    \/ \E p \in Callers, outcome \in UpsertOutcomes : RefreshUpsertSettles(p, outcome)

SpecRefresh == Init /\ [][NextRefresh]_vars

\* This step is a step of a forced refresh by p.
RefreshStep(p) == proc'[p].kind = "refresh" /\ proc'[p] # proc[p]

(***************************************************************************)
(* C26: no step of a forced refresh of a range, from its call to its       *)
(* return or failure, changes what the query result cache holds under the  *)
(* key of another range.                                                   *)
(***************************************************************************)
C26_RefreshKeepsOtherRanges ==
    [][\A p \in Callers :
          RefreshStep(p) =>
             \A q \in RefreshQueries :
                CacheKey(q.from, q.to) # CacheKey(proc'[p].from, proc'[p].to) =>
                   CachedList(feedbackCache', CacheKey(q.from, q.to))
                      = CachedList(feedbackCache, CacheKey(q.from, q.to))
      ]_vars

\* list holds a record that still awaits analysis.
HasPending(list) == \E k \in 1..Len(list) : list[k].sentiment = Pending

(***************************************************************************)
(* C27: a query that stores an entry with aiAnalyzed = true stores either  *)
(* the list of an upstream run with AI enabled or rows read from the store *)
(* none of which is Pending.                                               *)
(***************************************************************************)
C27_EnrichedFlagProvenance ==
    [][\A p \in Callers :
          LET key == CacheKey(proc'[p].from, proc'[p].to)
              entry == MapGet(feedbackCache'.cache, key)
          IN  (Sets(p) /\ entry.aiAnalyzed) =>
                 \/ proc'[p].dateChunks # <<>> /\ proc'[p].withAI
                 \/ proc'[p].dateChunks = <<>> /\ ~HasPending(entry.data)
      ]_vars

\* The cache holds an entry for key that is within its TTL and has
\* aiAnalyzed = true.
HoldsEnriched(c, t, key) ==
    /\ MapHas(c.cache, key)
    /\ t - MapGet(c.cache, key).timestamp <= c.ttl
    /\ MapGet(c.cache, key).aiAnalyzed

(***************************************************************************)
(* C28: while the query result cache holds, within its TTL, an entry with  *)
(* aiAnalyzed = true for a range, no step of any query leaves an entry     *)
(* with aiAnalyzed = false under that range's key.                         *)
(***************************************************************************)
C28_EnrichedEntryNotDowngraded ==
    [][\A q \in PairQueries :
          LET key == CacheKey(q.from, q.to) IN
             HoldsEnriched(feedbackCache, now, key) =>
                (MapHas(feedbackCache'.cache, key) =>
                    MapGet(feedbackCache'.cache, key).aiAnalyzed)
      ]_vars

\* The analysis of content failed in the run me has finished: an item
\* with that content got no verdict, and no item with that content got one.
AnalysisFailed(me, content) ==
    LET batchItems == BatchItems(me.feedbackItems) IN
       /\ \E k \in 1..Len(batchItems) : batchItems[k].content = content
       /\ \A k \in 1..Len(batchItems) :
             batchItems[k].content = content => ~MapHas(me.results, batchItems[k].id)

(***************************************************************************)
(* C29: when a run of analyzeInBatch has finished, a content whose         *)
(* analysis failed in it is a miss in the content cache, so that the next  *)
(* run that holds it sends it to the provider again.                       *)
(***************************************************************************)
C29_FailedContentNotCached ==
    \A p \in Callers :
        (proc[p].kind = "transform" /\ proc[p].pc = "done") =>
           \A k \in 1..Len(proc[p].feedbackItems) :
              LET content == proc[p].feedbackItems[k].content IN
                 AnalysisFailed(proc[p], content) =>
                    ~AnalysisCacheGet(analysisCache, now, content).hit

(***************************************************************************)
(* Specification SpecWarm: AI queries with the store configured and        *)
(* nothing failing.  Every store read and upstream request succeeds, the   *)
(* provider answers every chunk with one verdict per item, every upsert    *)
(* writes its rows, and the upstream data stay as they are.  The clock may *)
(* jump past the TTL of the query result cache, WarmMaxExpiries times.     *)
(***************************************************************************)
WarmMaxExpiries == 1

WarmQueries == {q \in Queries : q.from = 1 /\ q.to \in {5, 16}}

InitWarm ==
    /\ localTZ \in {tz \in TimeZones : tz.name = "UTC"}
    /\ IdleSplit
    /\ IdleDedup
    /\ IdleLRU
    /\ analysisCache = NewAnalysisCache(5000, 24)
    /\ supabaseConfigured = TRUE
    /\ db = <<>>
    /\ upserts = <<>>
    /\ proc = [p \in Callers |-> IdleProc]
    /\ analyzed = {}
    /\ calls = 0

\* Time passes until every entry of the query result cache has expired.
Expire ==
    /\ now < WarmMaxExpiries * (feedbackCache.ttl + 1)
    /\ now' = now + feedbackCache.ttl + 1
    /\ UNCHANGED <<localTZ, splitVars, dedupVars, feedbackCache, evictedKey, touchOrder,
                   lastGet, lastSet, pipeVars>>

NextWarm ==
    \/ \E p \in Callers, q \in WarmQueries : fetchFromFeishu(p, q.from, q.to, TRUE)
    \/ \E p \in Callers : GetFeedbackSettles(p, "ok")
    \/ \E p \in Callers : \E k \in 1..Len(proc[p].batch) : FetchSettles(p, k, "ok")
    \/ \E p \in Callers : \E k \in 1..Len(proc[p].aiBatch) :
          \E response \in {r \in Responses(proc[p].aiBatch[k].arg) :
                              Len(r.parsed) = Len(proc[p].aiBatch[k].arg)} :
             AnalysisSettles(p, k, response)
    \/ \E k \in 1..Len(upserts) : UpsertSettles(k, "ok")
    \/ Expire

\* The event loop keeps running: a request that is in flight settles.
SpecWarm == InitWarm /\ [][NextWarm]_vars /\ WF_vars(NextWarm)

\* The store holds a row for every record the upstream has for me's range:
\* an AI query of the range has completed and its upsert is persisted.
RangePersisted(me) ==
    LET fetched == InChunkOrder(splitDateRange(localTZ, me.from, me.to, 3)) IN
       /\ fetched # <<>>
       /\ \A k \in 1..Len(fetched) : MapHas(db, FeedbackId(fetched[k].id))

(***************************************************************************)
(* C30: with nothing failing, once an AI query of a range has completed    *)
(* and its rows are in the store, an AI query of the range that misses the *)
(* query result cache is answered by its store read: it returns the rows   *)
(* and starts no upstream request and no provider call.                    *)
(***************************************************************************)
C30_WarmStoreAnswersAIQuery ==
    [][\A p \in Callers :
          ( /\ proc[p].pc = "db" /\ proc[p].withAI
            /\ proc'[p] # proc[p]
            /\ RangePersisted(proc[p]) )
          => /\ proc'[p].pc = "done"
             /\ proc'[p].batch = <<>>
             /\ proc'[p].aiBatch = <<>>
      ]_vars

====
